---- MODULE Spec2Model ----
(***************************************************************************)
(* Frame decoding and latest-value delivery of the TactileGlove receivers. *)
(*                                                                         *)
(* Part 1: HighSpeedReceiver (TCP receiver, frame 0xAA | u16 LE length |   *)
(* payload | 0x55), in its two source variants:                            *)
(*   "wifi"    src/可拉伸外骨骼WIFI接收程序.py (same framing code as        *)
(*             src/本体感知系统显示程序/data_display_gui_原来1.py)          *)
(*   "gesture" src/手势识别数据采集/Gesture_Collection_App.py               *)
(*                                                                         *)
(* Part 2: SerialDataReader (reader thread, latest-value cell under a      *)
(* Lock, get_latest_data called by consumer threads), from                 *)
(*   src/惯性传感器数据融合/十轴数据获取与可视化.py                          *)
(*                                                                         *)
(* Part 3: the blocking serial decode loops, in two source variants:       *)
(*   "worker"  serial_worker of src/protobuf复杂编码到numpy多线程.py        *)
(*   "rate"    receive_data and the loop of __main__ of                    *)
(*             src/可拉伸外骨骼串口接收帧率程序.py                          *)
(*                                                                         *)
(* Part 4: the frame rate over a window of timestamps, in two sources:     *)
(*   "tracker" FrameRateTracker of src/可拉伸外骨骼串口接收帧率程序.py      *)
(*   "wifi"    HighSpeedReceiver.get_fps of src/可拉伸外骨骼WIFI接收程序.py *)
(*                                                                         *)
(* Part 5: the robot monitor, two programs that import shared_state.py:    *)
(*   "gui"        pose_visualizer.py                                       *)
(*   "controller" fr3_imu_tracker.py                                       *)
(* both in src/惯性传感器数据融合/惯性传感器控制机械臂/                      *)
(*                                                                         *)
(* Part 6: read_data of src/main.py (frame 0xAA 0xBB | 72 data bytes |     *)
(* 0xCC 0xDD, read from the serial port with a timeout)                    *)
(*                                                                         *)
(* Part 7: MainWindow.receive_protobuf_data of                             *)
(*   src/protobuf复杂编码到numpy高速(win).py                                *)
(*                                                                         *)
(* Part 8: the threads of fr3_imu_tracker.py: reader, control_loop and     *)
(* the shutdown in the finally block of __main__                           *)
(*                                                                         *)
(* Part 9: the extraction loop of src/Glove_Quick.py                       *)
(*                                                                         *)
(* Parts 10 and 11: HandControlThread and VisualizerThread of              *)
(*   src/本体感知系统显示程序（手语采集）/main.py                            *)
(*                                                                         *)
(* Part 12: GestureCollectionWindow of                                     *)
(*   src/手势识别数据采集/Gesture_Collection_App.py                         *)
(*                                                                         *)
(* Part 13: the main loop of src/本体感知系统显示程序（手语采集）/main.py    *)
(***************************************************************************)
EXTENDS Integers, Sequences, FiniteSets, TLC

VARIABLES
    variant,      \* which HighSpeedReceiver source is running
    sent,         \* history: names of the items the peer has written, in order
    wire,         \* bytes written by the peer and not yet returned by recv
    peerClosed,   \* the peer has closed the TCP connection
    buffer,       \* HighSpeedReceiver.buffer
    latest_reversed_data, \* HighSpeedReceiver.latest_reversed_data
    fps_tracker,  \* HighSpeedReceiver.fps_tracker (wifi): deque of timestamps
    frame_count,  \* HighSpeedReceiver.frame_count (gesture)
    now,          \* time.time(), in ticks of the clock's resolution
    ret,          \* what the last receive() returned: None or the frame
    xcalls,       \* history: the _extract_frame calls of the last receive()
    emitted,      \* history: every frame _extract_frame has returned
    rxBytes,      \* history: number of stream bytes recv has returned so far
    bufBase,      \* history: stream offset of buffer[1]
    pcMain,       \* the loop that calls receive(): "running" | "stopped"
    eofRecvs,     \* history: recv calls that returned b'' (capped)
    \* SerialDataReader
    imuSent,      \* history: names of the items the device has written
    imuPort,      \* bytes written by the device and not yet read from the port
    imuBuffer,    \* SerialDataReader.buffer
    latest_data,  \* SerialDataReader.latest_data: None or the object stored
    lock,         \* SerialDataReader.lock: None or the thread holding it
    running,      \* SerialDataReader.running
    pcReader,     \* position of the reader thread in _read_loop
    pending,      \* reader: the validated packet it is about to store
    pcGet,        \* position of each consumer thread in get_latest_data
    getData,      \* the local `data` of each consumer's get_latest_data
    events,       \* history: stores and returns, in the order they happened
    \* serial decode loops
    serVariant,   \* which decode loop is running
    serSent,      \* history: names of the items the device has written
    serWire,      \* bytes written by the device and not yet read
    serAlive,     \* the decode loop is still running
    serLog,       \* history: outcome of each pass of the loop that read bytes
    \* SerialDataReader.close
    pcClose,      \* position of the thread that calls close()
    portOpen,     \* SerialDataReader.ser.is_open
    \* frame rate
    fpsSource,    \* which get_fps is running
    timestamps,   \* FrameRateTracker.timestamps / HighSpeedReceiver.fps_tracker
    fpsClock,     \* time.time()
    fpsRet,       \* outcome of the last get_fps() call
    stamps,       \* history: every timestamp recorded, in order
    \* GUI frontend and controller backend
    shared_state, \* the module-level SharedState object of each process
    pcGui,        \* pose_visualizer.py: the window is open or closed
    pcCtl,        \* fr3_imu_tracker.py: position in control_loop
    written,      \* history: the value last assigned to each field
    readLog,      \* history: the last read of a field, with written then
    \* read_data of src/main.py
    mGarbage,     \* garbage bytes of the stream not yet read
    mOffset,      \* offset in its frame of the next byte of the stream
    pcRead,       \* position in read_data
    mRet,         \* what the last read_data call returned
    mShort,       \* history: some ser.read has timed out short of its size
    \* MainWindow.receive_protobuf_data
    pbSent,       \* history: number of stream bytes the device has written
    pbWaiting,    \* bytes in the port's input buffer (in_waiting is its length)
    pbRet,        \* outcome of the last receive_protobuf_data call
    pbReturned,   \* history: the message_data of every frame returned
    \* fr3_imu_tracker.py: reader thread, control_loop, shutdown
    ctlRunning,   \* shared_state.is_running
    ctlActive,    \* shared_state.control_active
    ctlReset,     \* shared_state.reset_zero_pose_requested
    ctlConnected, \* shared_state.robot_connected
    ctlLock,      \* shared_state.lock: None or the thread holding it
    ctlPortOpen,  \* reader.ser.is_open
    ctlPort,      \* packets written by the IMU and not yet read
    ctlSent,      \* history: number of packets the IMU has written
    ctlCell,      \* reader.latest_data_packet is not None
    pcRd,         \* position of the reader thread in _read_loop
    rdPending,    \* reader: validated packets of its buffer not yet stored
    pcCtrl,       \* position of the main thread
    ctlInitial,   \* control_loop: initial_imu_rotation is not None
    ctlCmd,       \* control_loop: tool_velocity_command, "zero" | "nonzero"
    ctlLast,      \* control_loop: last_sent_command, "zero" | "nonzero"
    ctlTwist,     \* history: the last twist sent, "none" | "zero" | "nonzero"
    ctlOff,       \* history: control_active was False ever since the packet
                  \* of this iteration was taken
    ctlReadClosed, \* history: ser.read was called on the closed port
    \* Glove_Quick.py
    gqSent,       \* history: names of the items the device has written
    gqPort,       \* bytes written by the device and not yet read
    gqBuffer,     \* buffer
    gqPackets,    \* history: the data of every packet extracted
    \* HandControlThread
    hcRunning,    \* HandControlThread.running
    hcLock,       \* HandControlThread.lock: None or the thread holding it
    hcTarget,     \* HandControlThread.target_positions (one finger)
    hcWrites,     \* history: set_positions calls made by run() (saturating)
    pcHand,       \* position of the control thread
    pcHandMain,   \* position of the main thread
    \* VisualizerThread
    vqRunning,    \* VisualizerThread.running
    vqQueue,      \* VisualizerThread.data_queue: the items, oldest first
    vqCalls,      \* history: number of update_data calls made
    pcUpd,        \* position of the main thread in update_data
    vqDropped,    \* history: number of items update_data has discarded
    vqFailed,      \* history: put_nowait has raised queue.Full
    \* GestureCollectionWindow
    win,          \* the fields of the window (and of its lock button, name
                  \* input and collection_timer)
    gcClock,      \* time.time(), in units of half a second
    gcSaved,      \* history: number of CSV files written
    gcFrames,     \* history: number of data_received signals delivered
    gcCaptures,   \* history: number of captures started
    gcClosed,     \* the window was closed (Escape)
    \* the main loop of the acquisition program
    pcAcq,        \* position of the main thread
    acqCalibrated, \* display.exoskeleton.pre_stretch_resistances is set
    acqHand,      \* hand_connected and hand_control_thread
    acqFrames,    \* history: frames returned by receiver.receive (saturating)
    acqForwarded, \* history: frames given to update_data (saturating)
    acqRaised,    \* the exception that left the loop, or None
    acqHandRunning, \* the hand control thread has not been stopped
    acqVizRunning, \* the visualizer thread has not been stopped
    acqConnOpen   \* conn has not been closed

receiverVars ==
    <<variant, sent, wire, peerClosed, buffer, latest_reversed_data,
      fps_tracker, frame_count, now, ret, xcalls, emitted, rxBytes, bufBase,
      pcMain, eofRecvs>>

busVars ==
    <<imuSent, imuPort, imuBuffer, latest_data, lock, running, pcReader,
      pending, pcGet, getData, events>>

serialVars == <<serVariant, serSent, serWire, serAlive, serLog>>

closeVars == <<pcClose, portOpen>>

fpsVars == <<fpsSource, timestamps, fpsClock, fpsRet, stamps>>

(* the programs of Part 4 and later *)
sharedVars == <<shared_state, pcGui, pcCtl, written, readLog>>

mainVars == <<mGarbage, mOffset, pcRead, mRet, mShort>>

protoVars == <<pbSent, pbWaiting, pbRet, pbReturned>>

(* the programs of Part 7 and later *)
driveVars ==
    <<ctlRunning, ctlActive, ctlReset, ctlConnected, ctlLock, ctlPortOpen,
      ctlPort, ctlSent, ctlCell, pcRd, rdPending, pcCtrl, ctlInitial, ctlCmd,
      ctlLast, ctlTwist, ctlOff, ctlReadClosed>>

quickVars == <<gqSent, gqPort, gqBuffer, gqPackets>>

handVars == <<hcRunning, hcLock, hcTarget, hcWrites, pcHand, pcHandMain>>

vizVars == <<vqRunning, vqQueue, vqCalls, pcUpd, vqDropped, vqFailed>>

gestVars == <<win, gcClock, gcSaved, gcFrames, gcCaptures, gcClosed>>

acqVars ==
    <<pcAcq, acqCalibrated, acqHand, acqFrames, acqForwarded, acqRaised,
      acqHandRunning, acqVizRunning, acqConnOpen>>

(* the programs of Part 12 and later *)
lastVars == <<gestVars, acqVars>>

moreVars == <<protoVars, driveVars, quickVars, handVars, vizVars, lastVars>>

laterVars == <<fpsVars, sharedVars, mainVars, moreVars>>

vars == <<receiverVars, busVars, serialVars, closeVars, laterVars>>

(* the variables of the other programs *)
notReceiver == <<busVars, serialVars, closeVars, laterVars>>
notBus == <<receiverVars, serialVars, closeVars, laterVars>>
notSerial == <<receiverVars, busVars, closeVars, laterVars>>
notFps ==
    <<receiverVars, busVars, serialVars, closeVars, sharedVars, mainVars,
      moreVars>>
notShared ==
    <<receiverVars, busVars, serialVars, closeVars, fpsVars, mainVars,
      moreVars>>
notMain ==
    <<receiverVars, busVars, serialVars, closeVars, fpsVars, sharedVars,
      moreVars>>
(* the variables of Parts 1 to 6 *)
firstVars ==
    <<receiverVars, busVars, serialVars, closeVars, fpsVars, sharedVars,
      mainVars>>
notProto == <<firstVars, driveVars, quickVars, handVars, vizVars, lastVars>>
notDrive == <<firstVars, protoVars, quickVars, handVars, vizVars, lastVars>>
notQuick == <<firstVars, protoVars, driveVars, handVars, vizVars, lastVars>>
notHand == <<firstVars, protoVars, driveVars, quickVars, vizVars, lastVars>>
notViz == <<firstVars, protoVars, driveVars, quickVars, handVars, lastVars>>
(* the variables of Parts 1 to 11 *)
earlyVars ==
    <<firstVars, protoVars, driveVars, quickVars, handVars, vizVars>>
notGest == <<earlyVars, acqVars>>
notAcq == <<earlyVars, gestVars>>

-----------------------------------------------------------------------------
(* Program constants *)

COLS == 4
FLOAT_SIZE == 4
START == 170
TAIL == 85
RECV_SIZE == 4096
FPS_WINDOW == 30

None == "None"

-----------------------------------------------------------------------------
(* Model bounds *)

(* ROWS stands for the 6 rows of the sensor array: the frame layout is     *)
(* ROWS x COLS float32, and the decoder depends on ROWS only through the   *)
(* payload size ROWS * COLS * 4 it accepts.                                *)
ROWS == 1
MaxItems == 2
MaxEofRecvs == 2
MaxClock == 1

TOTAL_CELLS == ROWS * COLS

-----------------------------------------------------------------------------
(* bytearray helpers *)

Drop(buf, n) == SubSeq(buf, n + 1, Len(buf))

Slice(buf, lo, hi) == SubSeq(buf, lo + 1, hi)

(* bytearray.find of one byte: the lowest 0-based offset, or -1 *)
FindAtFront(buf, b) == IF buf # <<>> /\ buf[1] = b THEN 0 ELSE -1

Find(buf, b) ==
    LET at == {i \in 1..Len(buf) : buf[i] = b}
    IN  IF at = {} THEN -1
        ELSE (CHOOSE i \in at : \A j \in at : i <= j) - 1

UnpackH(two) == two[1] + 256 * two[2]

-----------------------------------------------------------------------------
(* HighSpeedReceiver._extract_frame                                        *)
(* The result is [kind, data, buffer]: kind "frame" (data is the payload   *)
(* handed to np.frombuffer), "none" (returns None) or "raise" (reshape     *)
(* raised ValueError after the buffer was cut).                            *)

Reshapes(data) == Len(data) = TOTAL_CELLS * FLOAT_SIZE

(* del self.buffer[:start + total_len] after a frame was taken *)
FrameCutMissesStart(start, total_len) == total_len

FrameCut(start, total_len) == start + total_len

TailErrorCutNothing(v, start, total_len) == 0

TailErrorCutOneMore(v, start, total_len) ==
    IF v = "gesture" THEN start + 2 ELSE start + total_len + 1

TailErrorCut(v, start, total_len) ==
    IF v = "gesture" THEN start + 1 ELSE start + total_len

(* if self.buffer[start + total_len - 1] != 0x55 is the negation *)
TailUnchecked(buf, at) == TRUE

TailOk(buf, at) == buf[at] = TAIL

LengthRejectedAlways(v, data_len) == TRUE

LengthRejected(v, data_len) ==
    v = "gesture" /\ data_len # TOTAL_CELLS * 4

ExtractFrame(v, buf) ==
    LET start == Find(buf, START)
        none  == [kind |-> "none", data |-> <<>>, buffer |-> buf]
    IN  IF start = -1 THEN none
        ELSE IF Len(buf) < start + 3 THEN none
        ELSE LET data_len  == UnpackH(Slice(buf, start + 1, start + 3))
                 total_len == 3 + data_len + 1
             IN  IF LengthRejected(v, data_len)
                 THEN [none EXCEPT !.buffer = Drop(buf, start + 1)]
                 ELSE IF Len(buf) < start + total_len THEN none
                 ELSE IF ~TailOk(buf, start + total_len)
                 THEN [none EXCEPT !.buffer =
                           Drop(buf, TailErrorCut(v, start, total_len))]
                 ELSE LET data == Slice(buf, start + 3, start + 3 + data_len)
                          rest == Drop(buf, FrameCut(start, total_len))
                      IN  IF Reshapes(data)
                          THEN [kind |-> "frame", data |-> data, buffer |-> rest]
                          ELSE [kind |-> "raise", data |-> <<>>, buffer |-> rest]

-----------------------------------------------------------------------------
(* The drain loop of HighSpeedReceiver.receive: calls _extract_frame until *)
(* it returns None (or raises), keeping the last frame.                    *)
(* acc = [buffer, frame, n, raised, calls]                                 *)

RECURSIVE Drain(_, _)
Drain(v, acc) ==
    LET r    == ExtractFrame(v, acc.buffer)
        call == [inbuf |-> acc.buffer, kind |-> r.kind, data |-> r.data,
                 outbuf |-> r.buffer]
        acc1 == [acc EXCEPT !.buffer = r.buffer,
                            !.calls = Append(acc.calls, call)]
    IN  IF r.kind = "none" THEN acc1
        ELSE IF r.kind = "raise" THEN [acc1 EXCEPT !.raised = TRUE]
        ELSE Drain(v, [acc1 EXCEPT !.frame = r.data, !.n = acc.n + 1])

(* frame rows reversed and flattened: row[::-1] for each of the ROWS rows, *)
(* one cell being the FLOAT_SIZE bytes of a float32                        *)
Cell(data, k) == SubSeq(data, FLOAT_SIZE * k + 1, FLOAT_SIZE * (k + 1))

ReversedRows(data) ==
    [i \in 1..TOTAL_CELLS |->
        LET r == (i - 1) \div COLS
            c == (i - 1) % COLS
        IN  Cell(data, r * COLS + (COLS - 1 - c))]

-----------------------------------------------------------------------------
(* What the peer writes: frames in the wire format, and noise.  A payload  *)
(* is bytes of value 1 with a motif placed at one position.                *)

Payload(motif, pos) ==
    [i \in 1..(TOTAL_CELLS * FLOAT_SIZE) |->
        IF pos <= i /\ i < pos + Len(motif) THEN motif[i - pos + 1] ELSE 1]

WireFrame(payload, tail) ==
    <<START, Len(payload) % 256, Len(payload) \div 256>> \o payload \o <<tail>>

LenLo == (TOTAL_CELLS * FLOAT_SIZE) % 256
LenHi == (TOTAL_CELLS * FLOAT_SIZE) \div 256

(* G   a well-formed frame of the ROWS x COLS float32 layout, its payload  *)
(*     starting with the bytes 0x55 0xAA                                   *)
(* B   a frame of that layout whose trailer byte is corrupted              *)
(* Ba  the same, its payload holding the bytes of a frame header           *)
(* S   the well-formed frame AA 04 00 01 02 03 04 55, whose 4 payload      *)
(*     bytes are not the ROWS x COLS float32 layout                        *)
(* N   one noise byte                                                      *)
ItemNames == {"G", "B", "Ba", "S", "N"}

ItemPayload(name) ==
    CASE name = "G"  -> Payload(<<TAIL, START>>, 1)
      [] name = "B"  -> Payload(<<>>, 1)
      [] name = "Ba" -> Payload(<<START, LenLo, LenHi>>, 2)
      [] name = "S"  -> <<1, 2, 3, 4>>
      [] OTHER       -> <<>>

ItemTail(name) == IF name \in {"B", "Ba"} THEN 0 ELSE TAIL

ItemBytes(name) ==
    IF name = "N" THEN <<0>>
    ELSE WireFrame(ItemPayload(name), ItemTail(name))

RECURSIVE StreamOf(_)
StreamOf(names) ==
    IF names = <<>> THEN <<>>
    ELSE StreamOf(SubSeq(names, 1, Len(names) - 1))
             \o ItemBytes(names[Len(names)])

(* stream offset at which item k of the history starts *)
ItemStart(k) == Len(StreamOf(SubSeq(sent, 1, k - 1)))
ItemEnd(k) == Len(StreamOf(SubSeq(sent, 1, k)))

-----------------------------------------------------------------------------
Min(a, b) == IF a < b THEN a ELSE b

InitReceiver ==
    /\ variant \in {"wifi", "gesture"}
    /\ sent = <<>>
    /\ wire = <<>>
    /\ peerClosed = FALSE
    /\ buffer = <<>>
    /\ latest_reversed_data =
           IF variant = "gesture" THEN [i \in 1..TOTAL_CELLS |-> <<0>>] ELSE <<>>
    /\ fps_tracker = <<>>
    /\ frame_count = 0
    /\ now = 0
    /\ ret = None
    /\ xcalls = <<>>
    /\ emitted = <<>>
    /\ rxBytes = 0
    /\ bufBase = 0
    /\ pcMain = "running"
    /\ eofRecvs = 0

(* deque(maxlen=30).append *)
DequeAppend(dq, x) ==
    IF Len(dq) >= FPS_WINDOW THEN Append(Tail(dq), x) ELSE Append(dq, x)

RECURSIVE AppendStamps(_, _, _)
AppendStamps(dq, t, n) ==
    IF n = 0 THEN dq
    ELSE AppendStamps(DequeAppend(dq, t), t, n - 1)

(* history: the frames of one drain, with their place in the stream *)
RECURSIVE Emissions(_, _, _, _)
Emissions(calls, base, from, at) ==
    IF calls = <<>> THEN <<>>
    ELSE LET c    == Head(calls)
             cut  == Len(c.inbuf) - Len(c.outbuf)
             rest == Emissions(Tail(calls), base + cut, from, at)
         IN  IF c.kind = "frame"
             THEN <<[payload |-> c.data,
                     start |-> base + cut - (Len(c.data) + 4),
                     onArrival |-> from < base + cut /\ base + cut <= at]>>
                  \o rest
             ELSE rest

(* self.buffer.extend(data) *)
ExtendForgetsBuffer(buf, data) == data

Extend(buf, data) == buf \o data

(* HighSpeedReceiver.receive when recv returns `data` (not empty) *)
ReceiveData(data) ==
    \E acc \in {Drain(variant, [buffer |-> Extend(buffer, data),
                                frame |-> None, n |-> 0, raised |-> FALSE,
                                calls |-> <<>>])} :
    LET result == IF acc.raised THEN None ELSE acc.frame
    IN  /\ buffer' = acc.buffer
        /\ xcalls' = acc.calls
        /\ emitted' = emitted \o
               Emissions(acc.calls, bufBase, rxBytes, rxBytes + Len(data))
        /\ rxBytes' = rxBytes + Len(data)
        /\ bufBase' = rxBytes + Len(data) - Len(acc.buffer)
        /\ ret' = result
        /\ latest_reversed_data' =
               IF result # None THEN ReversedRows(result)
               ELSE latest_reversed_data
        /\ IF variant = "wifi"
           THEN /\ fps_tracker' = AppendStamps(fps_tracker, now, acc.n)
                /\ UNCHANGED frame_count
           ELSE /\ frame_count' = frame_count + acc.n
                /\ UNCHANGED fps_tracker

(* recv returns n bytes of the stream *)
RecvData(n) ==
    /\ pcMain = "running"
    /\ n >= 1 /\ n <= Len(wire) /\ n <= RECV_SIZE
    /\ wire' = Drop(wire, n)
    /\ ReceiveData(SubSeq(wire, 1, n))
    /\ UNCHANGED <<variant, sent, peerClosed, now, pcMain, eofRecvs>>
    /\ UNCHANGED notReceiver

(* recv returns b'': the peer has closed and nothing is left to read.      *)
(* receive() returns None and the loop goes round again.                   *)
RecvEof ==
    /\ pcMain = "running"
    /\ wire = <<>> /\ peerClosed
    /\ eofRecvs < MaxEofRecvs
    /\ eofRecvs' = eofRecvs + 1
    /\ ret' = None
    /\ xcalls' = <<>>
    /\ UNCHANGED <<variant, sent, wire, peerClosed, buffer,
                   latest_reversed_data, fps_tracker, frame_count, now, emitted, rxBytes,
                   bufBase, pcMain>>
    /\ UNCHANGED notReceiver

(* the non-blocking socket of the gesture program has nothing to read:     *)
(* recv raises BlockingIOError, receive() returns None                     *)
RecvWouldBlock ==
    /\ pcMain = "running"
    /\ variant = "gesture"
    /\ wire = <<>> /\ ~peerClosed
    /\ ret' = None
    /\ xcalls' = <<>>
    /\ UNCHANGED <<variant, sent, wire, peerClosed, buffer,
                   latest_reversed_data, fps_tracker, frame_count, now, emitted, rxBytes,
                   bufBase, pcMain, eofRecvs>>
    /\ UNCHANGED notReceiver

(* environment: the peer writes one more item, or closes *)
PeerSend(name) ==
    /\ ~peerClosed
    /\ Len(sent) < MaxItems
    /\ sent' = Append(sent, name)
    /\ wire' = wire \o ItemBytes(name)
    /\ UNCHANGED <<variant, peerClosed, buffer, latest_reversed_data,
                   fps_tracker, frame_count, now, ret, xcalls, emitted, rxBytes, bufBase, pcMain,
                   eofRecvs>>
    /\ UNCHANGED notReceiver

PeerClose ==
    /\ ~peerClosed
    /\ peerClosed' = TRUE
    /\ UNCHANGED <<variant, sent, wire, buffer, latest_reversed_data,
                   fps_tracker, frame_count, now, ret, xcalls, emitted, rxBytes, bufBase, pcMain,
                   eofRecvs>>
    /\ UNCHANGED notReceiver

(* environment: the clock advances *)
Tick ==
    /\ now < MaxClock
    /\ now' = now + 1
    /\ UNCHANGED <<variant, sent, wire, peerClosed, buffer,
                   latest_reversed_data, fps_tracker, frame_count, ret, xcalls, emitted,
                   rxBytes, bufBase, pcMain, eofRecvs>>
    /\ UNCHANGED notReceiver

(* the owner stops its loop: KeyboardInterrupt in __main__ (wifi),         *)
(* DataWorker.stop() from closeEvent (gesture)                             *)
StopLoop ==
    /\ pcMain = "running"
    /\ pcMain' = "stopped"
    /\ UNCHANGED <<variant, sent, wire, peerClosed, buffer,
                   latest_reversed_data, fps_tracker, frame_count, now, ret,
                   xcalls, emitted, rxBytes, bufBase, eofRecvs>>
    /\ UNCHANGED notReceiver

-----------------------------------------------------------------------------
(* The state of the other programs after construction.                     *)

(* None in the latest-data cell and in what get_latest_data returns *)
NoData == [id |-> 0, values |-> <<>>]

(* the threads that call get_latest_data *)
Consumers == {"c1", "c2"}

(* SerialDataReader.__init__ *)
InitBus ==
    /\ imuSent = <<>>
    /\ imuPort = <<>>
    /\ imuBuffer = <<>>
    /\ latest_data = NoData
    /\ lock = None
    /\ running = FALSE
    /\ pcReader = "unstarted"
    /\ pending = NoData
    /\ pcGet = [c \in Consumers |-> "idle"]
    /\ getData = [c \in Consumers |-> NoData]
    /\ events = <<>>
    /\ pcClose = "idle"
    /\ portOpen = TRUE

(* get_fps has not been called *)
NoFps == [kind |-> "none", num |-> 0, den |-> 1]

(* the tracker of source src is constructed *)
InitFps(src) ==
    /\ fpsSource = src
    /\ timestamps = <<>>
    /\ fpsClock = 0
    /\ fpsRet = NoFps
    /\ stamps = <<>>

(* SharedState.__init__, run by `from shared_state import shared_state`   *)
(* in each of the two programs                                             *)
SharedState ==
    [control_active |-> FALSE,
     reset_zero_pose_requested |-> TRUE,
     is_running |-> TRUE]

Procs == {"gui", "controller"}

NoRead == [by |-> "nobody", field |-> "none", value |-> FALSE,
           latest |-> FALSE]

InitShared ==
    /\ shared_state = [p \in Procs |-> SharedState]
    /\ pcGui = "open"
    /\ pcCtl = "test"
    /\ written = SharedState
    /\ readLog = NoRead

(* src/main.py is loaded; the stream starts with g garbage bytes *)
InitMain(g) ==
    /\ mGarbage = g
    /\ mOffset = 0
    /\ pcRead = "idle"
    /\ mRet = "pending"
    /\ mShort = FALSE

(* no call of receive_protobuf_data has been made; the port is open *)
NoProto == [kind |-> "none", data |-> <<>>]

InitProto ==
    /\ pbSent = 0
    /\ pbWaiting = <<>>
    /\ pbRet = NoProto
    /\ pbReturned = <<>>

(* the programs of Part 7 and later, after construction *)
(* fr3_imu_tracker.py after reader.start(), control_loop being entered;    *)
(* SharedState.__init__ has set the fields                                 *)
InitDrive ==
    /\ ctlRunning = TRUE
    /\ ctlActive = FALSE
    /\ ctlReset = TRUE
    /\ ctlConnected = FALSE
    /\ ctlLock = None
    /\ ctlPortOpen = TRUE
    /\ ctlPort = 0
    /\ ctlSent = 0
    /\ ctlCell = FALSE
    /\ pcRd = "test"
    /\ rdPending = 0
    /\ pcCtrl = "connect"
    /\ ctlInitial = FALSE
    /\ ctlCmd = "zero"
    /\ ctlLast = "zero"
    /\ ctlTwist = "none"
    /\ ctlOff = TRUE
    /\ ctlReadClosed = FALSE

(* Glove_Quick.py has opened the port and enters its loop *)
InitQuick ==
    /\ gqSent = <<>>
    /\ gqPort = <<>>
    /\ gqBuffer = <<>>
    /\ gqPackets = <<>>

(* HandControlThread.__init__ *)
InitHand ==
    /\ hcRunning = FALSE
    /\ hcLock = None
    /\ hcTarget = 0
    /\ hcWrites = 0
    /\ pcHand = "unstarted"
    /\ pcHandMain = "init"

(* VisualizerThread.__init__, and the thread started *)
InitViz ==
    /\ vqRunning = FALSE
    /\ vqQueue = <<>>
    /\ vqCalls = 0
    /\ pcUpd = "idle"
    /\ vqDropped = 0
    /\ vqFailed = FALSE

(* the number of entries of GESTURE_LIST in the model (48 in the source) *)
NumGestures == 2

(* GestureCollectionWindow.__init__: the fields, the unchecked lock        *)
(* button, the empty name input and the stopped collection_timer; the      *)
(* enter_calibration_state() that ends it returns at once (not locked)     *)
InitGest ==
    /\ win = [info_locked |-> FALSE,
              name |-> "",
              needs_calibration |-> TRUE,
              is_collecting |-> FALSE,
              current_R0 |-> None,
              current_gesture_idx |-> 0,
              gesture_progress |-> [i \in 0..(NumGestures - 1) |-> 0],
              current_rep_count |-> 0,
              samples_since_calibration |-> 0,
              start_capture_time |-> 0,
              data_buffer |-> <<>>,
              temp_capture_data |-> <<>>,
              timer |-> FALSE]
    /\ gcClock = 0
    /\ gcSaved = 0
    /\ gcFrames = 0
    /\ gcCaptures = 0
    /\ gcClosed = FALSE

(* the acquisition program has accepted the connection and started the     *)
(* visualizer thread *)
InitAcq ==
    /\ pcAcq = "start"
    /\ acqCalibrated = FALSE
    /\ acqHand = FALSE
    /\ acqFrames = 0
    /\ acqForwarded = 0
    /\ acqRaised = None
    /\ acqHandRunning = FALSE
    /\ acqVizRunning = TRUE
    /\ acqConnOpen = TRUE

InitMore ==
    /\ InitProto /\ InitDrive /\ InitQuick /\ InitHand /\ InitViz
    /\ InitGest /\ InitAcq

InitLater == InitFps("tracker") /\ InitShared /\ InitMain(0) /\ InitMore

(* the serial port is open and the decode loop of source v is entered *)
InitSerial(v) ==
    /\ serVariant = v
    /\ serSent = <<>>
    /\ serWire = <<>>
    /\ serAlive = TRUE
    /\ serLog = <<>>

-----------------------------------------------------------------------------
(* Spec: the framing of a stream of up to MaxItems items, delivered by     *)
(* recv in chunks of every size.  The clock does not advance here: the     *)
(* framing code never reads it.                                            *)

Init == InitReceiver /\ InitBus /\ InitSerial("worker") /\ InitLater

Next ==
    \/ \E n \in 1..Min(Len(wire), RECV_SIZE) : RecvData(n)
    \/ RecvWouldBlock
    \/ \E name \in ItemNames : PeerSend(name)

Spec == Init /\ [][Next]_vars

-----------------------------------------------------------------------------
(* SpecClose: one item is in flight when the program starts; the peer may  *)
(* close the connection and the owner may stop its loop.                   *)

InitClose ==
    /\ variant \in {"wifi", "gesture"}
    /\ sent \in {<<name>> : name \in ItemNames}
    /\ wire = StreamOf(sent)
    /\ peerClosed = FALSE
    /\ buffer = <<>>
    /\ latest_reversed_data =
           IF variant = "gesture" THEN [i \in 1..TOTAL_CELLS |-> <<0>>] ELSE <<>>
    /\ fps_tracker = <<>>
    /\ frame_count = 0
    /\ now = 0
    /\ ret = None
    /\ xcalls = <<>>
    /\ emitted = <<>>
    /\ rxBytes = 0
    /\ bufBase = 0
    /\ pcMain = "running"
    /\ eofRecvs = 0
    /\ InitBus
    /\ InitSerial("worker")
    /\ InitLater

NextClose ==
    \/ \E n \in 1..Min(Len(wire), RECV_SIZE) : RecvData(n)
    \/ RecvWouldBlock
    \/ RecvEof
    \/ PeerClose
    \/ StopLoop
    \/ Tick

SpecClose == InitClose /\ [][NextClose]_vars

-----------------------------------------------------------------------------
(* The wire format, stated on its own for the claims: positions are        *)
(* 1-based indices into a byte sequence.                                   *)

LayoutLen == TOTAL_CELLS * FLOAT_SIZE

Markers(b) == {i \in 1..Len(b) : b[i] = START}

FirstMarker(b) == CHOOSE i \in Markers(b) : \A j \in Markers(b) : i <= j

DeclaredLen(b, i) == b[i + 1] + 256 * b[i + 2]

(* the frame candidate at marker i is wholly in b *)
CompleteAt(b, i) ==
    /\ i + 2 <= Len(b)
    /\ i + 3 + DeclaredLen(b, i) <= Len(b)

WellFormedAt(b, i) ==
    /\ CompleteAt(b, i)
    /\ b[i + 3 + DeclaredLen(b, i)] = TAIL

PayloadAt(b, i) == SubSeq(b, i + 3, i + 2 + DeclaredLen(b, i))

AfterFrameAt(b, i) == SubSeq(b, i + 4 + DeclaredLen(b, i), Len(b))

StartsWellFormed(b) == Markers(b) # {} /\ WellFormedAt(b, FirstMarker(b))

StartsLayoutFrame(b) ==
    StartsWellFormed(b) /\ DeclaredLen(b, FirstMarker(b)) = LayoutLen

ExtractsFirstFrame(c) ==
    LET i == FirstMarker(c.inbuf)
    IN  /\ c.kind = "frame"
        /\ c.data = PayloadAt(c.inbuf, i)
        /\ c.outbuf = AfterFrameAt(c.inbuf, i)

(* C1, as stated: _extract_frame called on a buffer whose first 0xAA       *)
(* starts a complete frame 0xAA, length L, L payload bytes, 0x55 returns   *)
(* that frame's payload and leaves exactly the bytes after the frame.      *)
C1_AnyLength ==
    \A k \in DOMAIN xcalls :
        StartsWellFormed(xcalls[k].inbuf) => ExtractsFirstFrame(xcalls[k])

(* C1, amended: the same for the frames whose length L is the payload size *)
(* of the ROWS x COLS float32 layout.                                      *)
C1_LayoutFrame ==
    \A k \in DOMAIN xcalls :
        StartsLayoutFrame(xcalls[k].inbuf) => ExtractsFirstFrame(xcalls[k])

(* C1 witness: the wifi receiver has taken a layout frame that had a noise *)
(* byte before its marker.                                                 *)
C1_Witness ==
    /\ variant = "wifi"
    /\ \E k \in DOMAIN xcalls :
          /\ StartsLayoutFrame(xcalls[k].inbuf)
          /\ FirstMarker(xcalls[k].inbuf) > 1
          /\ xcalls[k].kind = "frame"
          /\ xcalls[k].data = ItemPayload("G")

-----------------------------------------------------------------------------
(* stream ranges, 0-based and half open *)

EmStart(e) == e.start
EmEnd(e) == e.start + Len(e.payload) + 4

Emits(lo) == {j \in DOMAIN emitted : EmStart(emitted[j]) < ItemEnd(lo)
                                      /\ EmEnd(emitted[j]) > ItemStart(lo)}

(* the frames emitted so far from the bytes of the first item are: none    *)
(* before its last byte has been delivered; from then on exactly one, with *)
(* the item's payload, emitted by the call that delivered the last byte    *)
FirstItemOnce ==
    IF rxBytes < ItemEnd(1) THEN Emits(1) = {}
    ELSE /\ Emits(1) = {1}
         /\ emitted[1].start = 0
         /\ emitted[1].payload = ItemPayload(sent[1])
         /\ emitted[1].onArrival

(* C2, as stated: chunking invariance for one well-formed frame delivered  *)
(* into an empty buffer in chunks of any sizes.                            *)
C2_AnyLength ==
    (sent # <<>> /\ sent[1] \in {"G", "S"}) => FirstItemOnce

(* C2, amended: chunking invariance for one well-formed frame of the       *)
(* ROWS x COLS float32 layout: exactly one frame is emitted, by the call   *)
(* that delivers the frame's last byte, with the original payload.         *)
C2_LayoutFrame ==
    (sent # <<>> /\ sent[1] = "G") => FirstItemOnce

(* C2 witness: a layout frame has been delivered whole and emitted *)
C2_Witness ==
    /\ sent = <<"G">>
    /\ wire = <<>>
    /\ Len(emitted) = 1
    /\ ret = ItemPayload("G")

-----------------------------------------------------------------------------
(* A stream of back-to-back frames of the layout in which item k is the    *)
(* one with a corrupted trailer and a well-formed frame follows it.        *)

CorruptedThenGood(k, corrupted) ==
    /\ k + 1 <= Len(sent)
    /\ sent[k] \in corrupted
    /\ sent[k + 1] = "G"
    /\ \A j \in 1..Len(sent) : j # k => sent[j] = "G"

IsEmitted(k) ==
    \E j \in DOMAIN emitted :
        /\ emitted[j].start = ItemStart(k)
        /\ emitted[j].payload = ItemPayload(sent[k])

(* no frame comes out of the corrupted item's bytes, and the frame after   *)
(* it is either emitted whole, once, or still wholly ahead of the decoder  *)
ResyncSafe(k) ==
    /\ Emits(k) = {}
    /\ \/ IsEmitted(k + 1) /\ Cardinality(Emits(k + 1)) = 1
       \/ Emits(k + 1) = {} /\ bufBase <= ItemStart(k + 1)

(* a receive() that starts after the corrupted candidate was rejected and  *)
(* ends with the following frame delivered whole has emitted that frame    *)
ResyncStep(k) ==
    (/\ bufBase > ItemStart(k)
     /\ rxBytes' > rxBytes
     /\ rxBytes' >= ItemEnd(k + 1)) => IsEmitted(k + 1)'

-----------------------------------------------------------------------------
(* a complete candidate at the first marker of b whose trailer is wrong *)
StartsBadTrailer(b) ==
    /\ Markers(b) # {}
    /\ CompleteAt(b, FirstMarker(b))
    /\ ~WellFormedAt(b, FirstMarker(b))

(* C4: when the byte at the trailer position is not 0x55, _extract_frame   *)
(* removes only the bytes up to and including the failed start marker and  *)
(* keeps every byte after it.                                              *)
C4_DropsOnlyMarker ==
    \A k \in DOMAIN xcalls :
        StartsBadTrailer(xcalls[k].inbuf) =>
            /\ xcalls[k].kind = "none"
            /\ xcalls[k].outbuf =
                   SubSeq(xcalls[k].inbuf, FirstMarker(xcalls[k].inbuf) + 1,
                          Len(xcalls[k].inbuf))

(* C5: when receive() returns, no complete well-formed frame is left in    *)
(* the buffer, also when a candidate was rejected earlier in the call.     *)
C5_DrainComplete ==
    xcalls # <<>> => ~StartsLayoutFrame(buffer)

-----------------------------------------------------------------------------
(* SpecNoise: the peer writes bytes that hold no valid frame: runs of one  *)
(* byte value that is not 0xAA, and a start marker followed by the length  *)
(* field 0xFFFF as the first bytes of the connection.  recv returns what   *)
(* is available, up to RECV_SIZE bytes.                                    *)

MaxNoiseBytes == 5200

NoiseBytes == {0, TAIL}

NoiseSizes == {RECV_SIZE \div 4, RECV_SIZE}

HugeHeader == <<START, 255, 255>>

PeerNoise(n, b) ==
    /\ wire = <<>>
    /\ rxBytes + n <= MaxNoiseBytes
    /\ wire' = [i \in 1..n |-> b]
    /\ UNCHANGED <<variant, sent, peerClosed, buffer, latest_reversed_data,
                   fps_tracker, frame_count, now, ret, xcalls, emitted,
                   rxBytes, bufBase, pcMain, eofRecvs>>
    /\ UNCHANGED notReceiver

PeerHugeHeader ==
    /\ wire = <<>>
    /\ rxBytes = 0
    /\ wire' = HugeHeader
    /\ UNCHANGED <<variant, sent, peerClosed, buffer, latest_reversed_data,
                   fps_tracker, frame_count, now, ret, xcalls, emitted,
                   rxBytes, bufBase, pcMain, eofRecvs>>
    /\ UNCHANGED notReceiver

NextNoise ==
    \/ \E n \in NoiseSizes, b \in NoiseBytes : PeerNoise(n, b)
    \/ PeerHugeHeader
    \/ wire # <<>> /\ RecvData(Min(Len(wire), RECV_SIZE))
    \/ RecvWouldBlock

SpecNoise == Init /\ [][NextNoise]_vars

(* C6: HighSpeedReceiver.buffer stays within a fixed ceiling when the      *)
(* bytes received hold no valid frame; the ceiling tried is 4 KiB, one     *)
(* full recv, the largest ceiling the design names.                        *)
C6_BufferBounded == Len(buffer) <= RECV_SIZE

-----------------------------------------------------------------------------
(* C10: when recv has returned b'' (the peer closed), the receive loop has *)
(* stopped and recv is not called again on the closed connection.          *)
C10_StopsOnClose ==
    eofRecvs >= 1 => (pcMain = "stopped" /\ eofRecvs = 1)

-----------------------------------------------------------------------------
(* b is a with bytes removed from its front *)
IsCutOf(b, a) ==
    /\ Len(b) < Len(a)
    /\ b = SubSeq(a, Len(a) - Len(b) + 1, Len(a))

(* the candidate at the first marker of b is wholly in b *)
StartsComplete(b) == Markers(b) # {} /\ CompleteAt(b, FirstMarker(b))

(* C12: every _extract_frame call either returns None and leaves the       *)
(* buffer as it was, or strictly shortens the buffer, and it shortens it   *)
(* whenever the candidate at the first marker is wholly buffered, corrupt  *)
(* or not; the buffer the drain loop of receive() works on gets strictly   *)
(* shorter from call to call, and only the last call of a drain returns    *)
(* no frame.                                                               *)
C12_ExtractProgress ==
    /\ \A k \in DOMAIN xcalls :
          /\ \/ xcalls[k].kind = "none" /\ xcalls[k].outbuf = xcalls[k].inbuf
             \/ IsCutOf(xcalls[k].outbuf, xcalls[k].inbuf)
          /\ StartsComplete(xcalls[k].inbuf)
                 => IsCutOf(xcalls[k].outbuf, xcalls[k].inbuf)
    /\ \A k \in 1..(Len(xcalls) - 1) :
          /\ xcalls[k].kind = "frame"
          /\ xcalls[k + 1].inbuf = xcalls[k].outbuf
          /\ Len(xcalls[k + 1].inbuf) < Len(xcalls[k].inbuf)

(* C12 witness: a receive() whose buffer held two corrupt candidates and   *)
(* nothing else has rejected the first and returned.                       *)
C12_Witness ==
    /\ sent = <<"Ba", "B">>
    /\ wire = <<>>
    /\ rxBytes - bufBase = Len(buffer)
    /\ Len(xcalls) = 1
    /\ xcalls[1].inbuf = StreamOf(sent)
    /\ IsCutOf(xcalls[1].outbuf, xcalls[1].inbuf)

(* the source takes frames of this declared length *)
AcceptedLen(v, len) == v = "wifi" \/ len = LayoutLen

(* the call returned None for want of bytes: b holds no start marker, or   *)
(* not yet the length field, or a length the source takes and not yet the  *)
(* whole of the declared payload and trailer                               *)
NotYetBuffered(v, b) ==
    \/ Markers(b) = {}
    \/ FirstMarker(b) + 2 > Len(b)
    \/ /\ AcceptedLen(v, DeclaredLen(b, FirstMarker(b)))
       /\ ~CompleteAt(b, FirstMarker(b))

(* C14: when _extract_frame returns None because the start marker, the     *)
(* length field or the declared payload plus trailer is not yet wholly     *)
(* buffered, the buffer is left as it was; the next receive() appends its  *)
(* bytes to that buffer, so the bytes that follow complete the same frame. *)
C14_IncompleteUntouched ==
    /\ [](\A k \in DOMAIN xcalls :
             NotYetBuffered(variant, xcalls[k].inbuf) =>
                 /\ xcalls[k].kind = "none"
                 /\ xcalls[k].outbuf = xcalls[k].inbuf)
    /\ [][rxBytes' > rxBytes =>
             /\ Len(xcalls'[1].inbuf) = Len(buffer) + rxBytes' - rxBytes
             /\ SubSeq(xcalls'[1].inbuf, 1, Len(buffer)) = buffer]_vars

(* C14 witness: a receive() has taken the first part of a frame of the     *)
(* layout, ending inside its payload, has returned None and kept it; the   *)
(* rest of the frame is still to come.                                     *)
C14_Witness ==
    /\ sent = <<"G">>
    /\ rxBytes > 3
    /\ wire # <<>>
    /\ ret = None
    /\ Len(xcalls) = 1
    /\ xcalls[1].inbuf = buffer
    /\ buffer \o wire = ItemBytes("G")

(* C15: every frame _extract_frame returns is the payload of a contiguous  *)
(* range of the buffer that starts with 0xAA at the first marker, whose    *)
(* little-endian length field is the number of payload bytes and the size  *)
(* of the ROWS x COLS float32 layout, and whose byte after the payload is  *)
(* 0x55; the range is what the call removes.                               *)
C15_OnlyValidFrames ==
    \A k \in DOMAIN xcalls :
        xcalls[k].kind = "frame" =>
            LET b == xcalls[k].inbuf
                i == FirstMarker(b)
            IN  /\ Markers(b) # {}
                /\ WellFormedAt(b, i)
                /\ DeclaredLen(b, i) = Len(xcalls[k].data)
                /\ DeclaredLen(b, i) = LayoutLen
                /\ xcalls[k].data = PayloadAt(b, i)
                /\ xcalls[k].outbuf = AfterFrameAt(b, i)

(* C15 witness: the wifi receiver has returned a frame in a stream in      *)
(* which a well-formed frame of another length came first.                 *)
C15_Witness ==
    /\ variant = "wifi"
    /\ sent = <<"S", "G">>
    /\ \E k \in DOMAIN xcalls : xcalls[k].kind = "frame"

-----------------------------------------------------------------------------
(* SpecCorrupt: the stream is a frame of the layout with one byte changed, *)
(* followed by well-formed frames for as long as the receiver reads; the   *)
(* receiver starts with an empty buffer and is watched until it returns    *)
(* its first frame.  The history sent is not kept here.                    *)

FrameLen == Len(ItemBytes("G"))

(* the high byte of the length field is corrupted to at most this: a       *)
(* larger value makes the wifi source wait for that many more bytes        *)
MaxHighByte == 1

MaxStreamBytes == 256 * (MaxHighByte + 1) + 4 * FrameLen

CorruptValues(p) == IF p = 3 THEN 1..MaxHighByte ELSE {0, 2, START, TAIL}

Corrupted(p, c) == [ItemBytes("G") EXCEPT ![p] = c]

InitCorrupt ==
    /\ variant \in {"wifi", "gesture"}
    /\ sent = <<>>
    /\ \E p \in 1..FrameLen : \E c \in CorruptValues(p) :
          /\ Corrupted(p, c) # ItemBytes("G")
          /\ wire = Corrupted(p, c)
    /\ peerClosed = FALSE
    /\ buffer = <<>>
    /\ latest_reversed_data =
           IF variant = "gesture" THEN [i \in 1..TOTAL_CELLS |-> <<0>>] ELSE <<>>
    /\ fps_tracker = <<>>
    /\ frame_count = 0
    /\ now = 0
    /\ ret = None
    /\ xcalls = <<>>
    /\ emitted = <<>>
    /\ rxBytes = 0
    /\ bufBase = 0
    /\ pcMain = "running"
    /\ eofRecvs = 0
    /\ InitBus
    /\ InitSerial("worker")
    /\ InitLater

(* environment: the peer writes the next well-formed frame *)
PeerKeepsSending ==
    /\ emitted = <<>>
    /\ wire = <<>>
    /\ rxBytes < MaxStreamBytes
    /\ wire' = ItemBytes("G")
    /\ UNCHANGED <<variant, sent, peerClosed, buffer, latest_reversed_data,
                   fps_tracker, frame_count, now, ret, xcalls, emitted,
                   rxBytes, bufBase, pcMain, eofRecvs>>
    /\ UNCHANGED notReceiver

(* the caller's loop: receive() again, with no reset in between *)
ReceiveAgain ==
    /\ emitted = <<>>
    /\ \/ \E n \in {1, Len(wire)} : RecvData(n)
       \/ RecvWouldBlock

NextCorrupt == PeerKeepsSending \/ ReceiveAgain

SpecCorrupt ==
    /\ InitCorrupt
    /\ [][NextCorrupt]_vars
    /\ WF_<<wire, rxBytes>>(PeerKeepsSending)
    /\ WF_<<wire, rxBytes>>(emitted = <<>>
                               /\ \E n \in {1, Len(wire)} : RecvData(n))

(* the receiver has its first frame before this many bytes were read *)
RecoverWithin == 256 * (MaxHighByte + 1) + 2 * FrameLen

-----------------------------------------------------------------------------
(* Part 2: SerialDataReader                                                *)
(* Packet: 0xAA 0xBB | N_VALUES float32 | XOR of the data bytes.           *)

PACKET_HEADER == <<170, 187>>

(* N_VALUES stands for the 10 floats of PACKET_FORMAT '<BB10fB' *)
N_VALUES == 1
MaxPackets == 2
MaxTakes == 3

PACKET_SIZE == 2 + N_VALUES * FLOAT_SIZE + 1

(* bytearray.find of a byte string: the lowest 0-based offset, or -1 *)
FindBytes(buf, pat) ==
    LET at == {i \in 1..(Len(buf) - Len(pat) + 1) :
                  SubSeq(buf, i, i + Len(pat) - 1) = pat}
    IN  IF at = {} THEN -1
        ELSE (CHOOSE i \in at : \A j \in at : i <= j) - 1

(* a ^ b on bytes *)
RECURSIVE Xor(_, _)
Xor(a, b) ==
    IF a = 0 /\ b = 0 THEN 0
    ELSE ((a + b) % 2) + 2 * Xor(a \div 2, b \div 2)

(* the table of a ^ b *)
XorTable == [a \in 0..255 |-> [b \in 0..255 |-> Xor(a, b)]]

(* checksum after the first k bytes: `checksum ^= byte` for each of them *)
RECURSIVE ChecksumTo(_, _)
ChecksumTo(data_bytes, k) ==
    IF k = 0 THEN 0
    ELSE XorTable[ChecksumTo(data_bytes, k - 1)][data_bytes[k]]

_calculate_checksum(data_bytes) == ChecksumTo(data_bytes, Len(data_bytes))

(* struct.unpack of the N_VALUES floats: one value per FLOAT_SIZE bytes *)
UnpackValues(data_bytes) ==
    [i \in 1..N_VALUES |-> Cell(data_bytes, i - 1)]

(* What the device writes:                                                 *)
(* P, Q  packets with a right checksum and different data                  *)
(* X     a packet with a wrong checksum                                    *)
(* Z     one byte that is no header byte                                   *)
ImuItemNames == {"P", "Q", "X", "Z"}

ImuData(name) ==
    [i \in 1..(N_VALUES * FLOAT_SIZE) |->
        IF name = "Q" /\ i = 1 THEN 2 ELSE 1]

ImuBytes(name) ==
    CASE name = "Z" -> <<0>>
      [] name = "X" -> PACKET_HEADER \o ImuData(name)
                           \o <<Xor(_calculate_checksum(ImuData(name)), 255)>>
      [] OTHER      -> PACKET_HEADER \o ImuData(name)
                           \o <<_calculate_checksum(ImuData(name))>>

(* if calculated_checksum == received_checksum *)
ChecksumUnchecked(calculated_checksum, received_checksum) == TRUE

ChecksumMatches(calculated_checksum, received_checksum) ==
    calculated_checksum = received_checksum

(* the lock is free *)
LockIgnored(l) == TRUE

LockFree(l) == l = None

(* get_latest_data: what it leaves in the cell *)
AfterTakeKeeps(data) == data

AfterTake(data) == NoData

Publishes == {i \in DOMAIN events : events[i].op = "publish"}
Takes == {i \in DOMAIN events : events[i].op = "take"}

(* get_latest_data calls begun so far *)
TakesBegun ==
    Cardinality(Takes) + Cardinality({c \in Consumers : pcGet[c] # "idle"})

(* environment: the device writes one more item *)
ImuSend(name) ==
    /\ Len(imuSent) < MaxPackets
    /\ imuSent' = Append(imuSent, name)
    /\ imuPort' = imuPort \o ImuBytes(name)
    /\ UNCHANGED <<imuBuffer, latest_data, lock, running, pcReader, pending,
                   pcGet, getData, events>>
    /\ UNCHANGED notBus

(* SerialDataReader.start *)
ReaderStart ==
    /\ pcReader = "unstarted"
    /\ running' = TRUE
    /\ pcReader' = "test"
    /\ UNCHANGED <<imuSent, imuPort, imuBuffer, latest_data, lock, pending,
                   pcGet, getData, events>>
    /\ UNCHANGED notBus

(* _read_loop: the test of `while self.running`, made once per pass of the *)
(* outer loop; the thread ends when the flag is down                       *)
ReaderCheck ==
    /\ pcReader = "test"
    /\ pcReader' = IF running THEN "read" ELSE "exited"
    /\ UNCHANGED <<imuSent, imuPort, imuBuffer, latest_data, lock, running,
                   pending, pcGet, getData, events>>
    /\ UNCHANGED notBus

(* _read_loop: self.buffer.extend(self.ser.read(self.ser.in_waiting or 1)) *)
(* in_waiting is n, the number of bytes that have arrived so far           *)
ReaderRead(n) ==
    /\ pcReader = "read"
    /\ n >= 1 /\ n <= Len(imuPort)
    /\ imuBuffer' = imuBuffer \o SubSeq(imuPort, 1, n)
    /\ imuPort' = Drop(imuPort, n)
    /\ pcReader' = "parse"
    /\ UNCHANGED <<imuSent, latest_data, lock, running, pending, pcGet,
                   getData, events>>
    /\ UNCHANGED notBus

(* _read_loop: nothing is waiting, read(1) returns b'' after the timeout *)
ReaderReadTimeout ==
    /\ pcReader = "read"
    /\ imuPort = <<>>
    /\ pcReader' = "parse"
    /\ UNCHANGED <<imuSent, imuPort, imuBuffer, latest_data, lock, running,
                   pending, pcGet, getData, events>>
    /\ UNCHANGED notBus

(* _read_loop: self.buffer = self.buffer[-(PACKET_SIZE - 1):] *)
KeepNothing(buf) == <<>>

KeepTail(buf) ==
    SubSeq(buf, Len(buf) - (PACKET_SIZE - 1) + 1, Len(buf))

(* _read_loop: one pass of `while len(self.buffer) >= PACKET_SIZE`, up to  *)
(* the `with self.lock` of a packet whose checksum is right                *)
ReaderParse ==
    /\ pcReader = "parse"
    /\ IF Len(imuBuffer) < PACKET_SIZE
       THEN /\ pcReader' = "test"
            /\ UNCHANGED <<imuBuffer, pending>>
       ELSE LET header_index == FindBytes(imuBuffer, PACKET_HEADER)
            IN  IF header_index = -1
                THEN /\ imuBuffer' = KeepTail(imuBuffer)
                     /\ pcReader' = "test"
                     /\ UNCHANGED pending
                ELSE LET cut == Drop(imuBuffer, header_index)
                     IN  IF Len(cut) < PACKET_SIZE
                         THEN /\ imuBuffer' = cut
                              /\ pcReader' = "test"
                              /\ UNCHANGED pending
                         ELSE LET packet_bytes == SubSeq(cut, 1, PACKET_SIZE)
                                  received_checksum == packet_bytes[PACKET_SIZE]
                                  data_bytes_for_checksum ==
                                      SubSeq(packet_bytes, 3, PACKET_SIZE - 1)
                              IN  /\ imuBuffer' = Drop(cut, PACKET_SIZE)
                                  /\ IF ChecksumMatches(
                                            _calculate_checksum(
                                                data_bytes_for_checksum),
                                            received_checksum)
                                     THEN /\ pending' =
                                                 [id |-> Cardinality(Publishes) + 1,
                                                  values |-> UnpackValues(
                                                      data_bytes_for_checksum),
                                                  packet |-> packet_bytes]
                                          /\ pcReader' = "publish"
                                     ELSE /\ pcReader' = "parse"
                                          /\ UNCHANGED pending
    /\ UNCHANGED <<imuSent, imuPort, latest_data, lock, running, pcGet,
                   getData, events>>
    /\ UNCHANGED notBus

(* _read_loop: `with self.lock:` entered *)
ReaderAcquire ==
    /\ pcReader = "publish"
    /\ LockFree(lock)
    /\ lock' = "reader"
    /\ pcReader' = "store"
    /\ UNCHANGED <<imuSent, imuPort, imuBuffer, latest_data, running,
                   pending, pcGet, getData, events>>
    /\ UNCHANGED notBus

(* _read_loop: self.latest_data = SensorData(...), and the lock is then    *)
(* released.  The object stored is a new one: id is its identity.          *)
ReaderStore ==
    /\ pcReader = "store"
    /\ latest_data' = [id |-> pending.id, values |-> pending.values]
    /\ events' = Append(events, [op |-> "publish", by |-> "reader",
                                 data |-> [id |-> pending.id,
                                           values |-> pending.values],
                                 packet |-> pending.packet])
    /\ lock' = None
    /\ pending' = NoData
    /\ pcReader' = "parse"
    /\ UNCHANGED <<imuSent, imuPort, imuBuffer, running, pcGet, getData>>
    /\ UNCHANGED notBus

(* get_latest_data: `with self.lock:` entered *)
GetAcquire(c) ==
    /\ pcGet[c] = "idle"
    /\ TakesBegun < MaxTakes
    /\ LockFree(lock)
    /\ lock' = c
    /\ pcGet' = [pcGet EXCEPT ![c] = "read"]
    /\ UNCHANGED <<imuSent, imuPort, imuBuffer, latest_data, running,
                   pcReader, pending, getData, events>>
    /\ UNCHANGED notBus

(* get_latest_data: data = self.latest_data *)
GetRead(c) ==
    /\ pcGet[c] = "read"
    /\ getData' = [getData EXCEPT ![c] = latest_data]
    /\ pcGet' = [pcGet EXCEPT ![c] = "clear"]
    /\ UNCHANGED <<imuSent, imuPort, imuBuffer, latest_data, lock, running,
                   pcReader, pending, events>>
    /\ UNCHANGED notBus

(* get_latest_data: self.latest_data = None *)
GetClear(c) ==
    /\ pcGet[c] = "clear"
    /\ latest_data' = AfterTake(latest_data)
    /\ pcGet' = [pcGet EXCEPT ![c] = "return"]
    /\ UNCHANGED <<imuSent, imuPort, imuBuffer, lock, running, pcReader,
                   pending, getData, events>>
    /\ UNCHANGED notBus

(* get_latest_data: return data, leaving the `with` block *)
GetReturn(c) ==
    /\ pcGet[c] = "return"
    /\ events' = Append(events, [op |-> "take", by |-> c,
                                 data |-> getData[c], packet |-> <<>>])
    /\ lock' = None
    /\ getData' = [getData EXCEPT ![c] = NoData]
    /\ pcGet' = [pcGet EXCEPT ![c] = "idle"]
    /\ UNCHANGED <<imuSent, imuPort, imuBuffer, latest_data, running,
                   pcReader, pending>>
    /\ UNCHANGED notBus

(* SpecBus: the reader thread and the consumer threads, every interleaving *)
(* of their steps.  A read returns all that is waiting or the first half   *)
(* of a packet.                                                            *)
ReadSizes == {n \in 1..Len(imuPort) : n = Len(imuPort) \/ n = PACKET_SIZE \div 2}

NextBus ==
    \/ \E name \in ImuItemNames : ImuSend(name)
    \/ ReaderStart
    \/ ReaderCheck
    \/ \E n \in ReadSizes : ReaderRead(n)
    \/ ReaderReadTimeout
    \/ ReaderParse
    \/ ReaderAcquire
    \/ ReaderStore
    \/ \E c \in Consumers : GetAcquire(c)
    \/ \E c \in Consumers : GetRead(c)
    \/ \E c \in Consumers : GetClear(c)
    \/ \E c \in Consumers : GetReturn(c)

InitReader ==
    /\ InitReceiver /\ variant = "wifi"
    /\ InitBus
    /\ InitSerial("worker")
    /\ InitLater

SpecBus == InitReader /\ [][NextBus]_vars

(* C7: latest-wins coalescing.  When two packets are stored with no        *)
(* get_latest_data in between, the next get_latest_data returns the second *)
(* one, and the get_latest_data after that, no packet having been stored   *)
(* meanwhile, returns None.                                                *)
C7_LatestWins ==
    \A i \in DOMAIN events :
        (/\ i + 2 <= Len(events)
         /\ events[i].op = "publish"
         /\ events[i + 1].op = "publish"
         /\ events[i + 2].op = "take")
        => /\ events[i + 2].data = events[i + 1].data
           /\ (i + 3 <= Len(events) /\ events[i + 3].op = "take")
                  => events[i + 3].data = NoData

(* C7 witness: two stores, then a get_latest_data that returned the second *)
(* packet, then one that returned None.                                    *)
C7_Witness ==
    \E i \in DOMAIN events :
        /\ i + 3 <= Len(events)
        /\ events[i].op = "publish"
        /\ events[i + 1].op = "publish"
        /\ events[i + 2].op = "take"
        /\ events[i + 2].data = events[i + 1].data
        /\ events[i + 1].data.values # events[i].data.values
        /\ events[i + 3].op = "take"
        /\ events[i + 3].data = NoData

(* the packet bytes start with the header and end with the XOR of the data *)
PassedValidation(packet) ==
    /\ Len(packet) = PACKET_SIZE
    /\ SubSeq(packet, 1, 2) = PACKET_HEADER
    /\ _calculate_checksum(SubSeq(packet, 3, PACKET_SIZE - 1))
           = packet[PACKET_SIZE]

(* C8: under every interleaving of the reader with the consumers, each     *)
(* value get_latest_data returns that is not None is the whole of one      *)
(* packet that passed validation and was stored before, and no stored      *)
(* packet is returned by two get_latest_data calls.                        *)
C8_AtomicTake ==
    /\ \A t \in Takes :
          events[t].data # NoData =>
              \E p \in Publishes :
                  /\ p < t
                  /\ events[p].data = events[t].data
                  /\ PassedValidation(events[p].packet)
                  /\ events[t].data.values =
                         UnpackValues(SubSeq(events[p].packet, 3, PACKET_SIZE - 1))
    /\ \A t, u \in Takes :
          (t # u /\ events[t].data # NoData /\ events[u].data # NoData)
              => events[t].data.id # events[u].data.id

(* C8 witness: each of the two consumers has returned a packet, and a     *)
(* third get_latest_data is now inside its `with` block.                   *)
C8_Witness ==
    /\ \E t, u \in Takes :
          /\ events[t].by = "c1" /\ events[t].data # NoData
          /\ events[u].by = "c2" /\ events[u].data # NoData
    /\ \E c \in Consumers : lock = c

-----------------------------------------------------------------------------
(* the inner loop of _read_loop is about to cut a whole packet that does   *)
(* not pass validation                                                     *)
BadPacketAhead ==
    /\ pcReader = "parse"
    /\ Len(imuBuffer) >= PACKET_SIZE
    /\ LET h == FindBytes(imuBuffer, PACKET_HEADER)
       IN  /\ h # -1
           /\ Len(imuBuffer) - h >= PACKET_SIZE
           /\ ~PassedValidation(SubSeq(imuBuffer, h + 1, h + PACKET_SIZE))

(* C16: _read_loop publishes a packet to the latest-data cell only if the  *)
(* packet starts with 0xAA 0xBB and the XOR of the bytes between the       *)
(* header and the final byte equals the final byte; the pass of the loop   *)
(* that takes a packet failing the checksum out of the buffer publishes    *)
(* nothing, leaves the cell as it is and goes on with the inner loop, and  *)
(* the thread does not end while running is set.                           *)
C16_OnlyValidPublished ==
    /\ [](\A p \in Publishes : PassedValidation(events[p].packet))
    /\ [](pcReader \in {"publish", "store"}
             => PassedValidation(pending.packet))
    /\ [][(BadPacketAhead /\ imuBuffer' # imuBuffer) =>
             /\ latest_data' = latest_data
             /\ events' = events
             /\ pending' = pending
             /\ lock' = lock
             /\ pcReader' = "parse"]_vars
    /\ [](running => pcReader # "exited")

(* C16 witness: the device wrote a packet with a wrong checksum and then a *)
(* right one; the reader has published the second and only that.           *)
C16_Witness ==
    /\ imuSent = <<"X", "P">>
    /\ Cardinality(Publishes) = 1
    /\ \E p \in Publishes : events[p].packet = ImuBytes("P")
    /\ imuBuffer = <<>>
    /\ imuPort = <<>>

-----------------------------------------------------------------------------
(* SerialDataReader.close, called from closeEvent of the window whose      *)
(* __init__ called start(): the flag is lowered, the thread is joined,     *)
(* the port is closed.                                                     *)

(* self.thread.join() returns *)
NeverJoined(pc) == TRUE

ThreadJoined(pc) == pc = "exited"

(* close: self.running = False *)
CloseBegin ==
    /\ pcClose = "idle"
    /\ pcReader # "unstarted"
    /\ running' = FALSE
    /\ pcClose' = "join"
    /\ UNCHANGED <<imuSent, imuPort, imuBuffer, latest_data, lock, pcReader,
                   pending, pcGet, getData, events, portOpen>>
    /\ UNCHANGED <<receiverVars, serialVars, laterVars>>

(* close: if self.thread: self.thread.join() *)
CloseJoin ==
    /\ pcClose = "join"
    /\ ThreadJoined(pcReader)
    /\ pcClose' = "port"
    /\ UNCHANGED <<busVars, portOpen>>
    /\ UNCHANGED <<receiverVars, serialVars, laterVars>>

(* close: if self.ser and self.ser.is_open: self.ser.close() *)
ClosePort ==
    /\ pcClose = "port"
    /\ portOpen' = FALSE
    /\ pcClose' = "done"
    /\ UNCHANGED busVars
    /\ UNCHANGED <<receiverVars, serialVars, laterVars>>

(* the steps of the reader thread *)
ReaderThread ==
    \/ ReaderCheck
    \/ \E n \in ReadSizes : ReaderRead(n)
    \/ ReaderReadTimeout
    \/ ReaderParse
    \/ ReaderAcquire
    \/ ReaderStore

(* the window's timer, update_plot, is the consumer of this program *)
TimerConsumer == "c1"

(* the steps of the consumer while it holds the lock *)
ConsumerInLock ==
    GetRead(TimerConsumer) \/ GetClear(TimerConsumer) \/ GetReturn(TimerConsumer)

CloseThread == CloseJoin \/ ClosePort

(* what the device writes while the program is closed: packets and bytes  *)
(* that are no packet                                                      *)
StopItemNames == {"P", "Z"}

NextStop ==
    \/ \E name \in StopItemNames : ImuSend(name)
    \/ ReaderStart
    \/ ReaderThread
    \/ GetAcquire(TimerConsumer)
    \/ ConsumerInLock
    \/ CloseBegin
    \/ CloseThread

(* SpecStop: the reader, the consumer and the thread that calls close().   *)
(* Threads that can run are scheduled: the reader thread, the consumer     *)
(* inside its `with` block and the closing thread each go on.              *)
SpecStop ==
    /\ InitReader
    /\ [][NextStop]_vars
    /\ WF_vars(ReaderThread)
    /\ WF_vars(ConsumerInLock)
    /\ WF_vars(CloseThread)

(* C11: once close() has returned the reader thread has exited and the     *)
(* port is closed; the thread never reads the port after it was closed;    *)
(* once the flag is down the thread's test of it starts no new read, so    *)
(* at most the read in progress times out; and close(), once it waits in   *)
(* join, returns.                                                          *)
C11_CloseStopsReader ==
    /\ [](pcClose = "done" => (pcReader = "exited" /\ ~portOpen))
    /\ [][(pcReader = "read" /\ pcReader' = "parse") => portOpen]_vars
    /\ [][(~running /\ pcReader = "test") => pcReader' # "read"]_vars
    /\ (pcClose = "join" ~> pcClose = "done")

(* C11 witness: close() has returned after the thread had stored a packet  *)
(* and while bytes of the device were still unread.                        *)
C11_Witness ==
    /\ pcClose = "done"
    /\ Publishes # {}
    /\ imuPort # <<>>

-----------------------------------------------------------------------------
(* The reader thread alone, on a stream that holds runs of bytes with no   *)
(* header in them.                                                         *)

MaxTruncItems == 3

(* What the device writes:                                                 *)
(* P  a packet with a right checksum                                       *)
(* J  PACKET_SIZE bytes that are no header byte                            *)
(* A  the byte 0xAA, not followed by 0xBB unless a packet comes next       *)
(*    (0xAA 0xAA 0xBB)                                                     *)
TruncItemNames == {"P", "J", "A"}

TruncBytes(name) ==
    CASE name = "J" -> [i \in 1..PACKET_SIZE |-> 0]
      [] name = "A" -> <<PACKET_HEADER[1]>>
      [] OTHER      -> ImuBytes("P")

(* environment: the device writes one more item *)
DeviceWrites(name) ==
    /\ Len(imuSent) < MaxTruncItems
    /\ imuSent' = Append(imuSent, name)
    /\ imuPort' = imuPort \o TruncBytes(name)
    /\ UNCHANGED <<imuBuffer, latest_data, lock, running, pcReader, pending,
                   pcGet, getData, events>>
    /\ UNCHANGED notBus

NextTrunc ==
    \/ \E name \in TruncItemNames : DeviceWrites(name)
    \/ ReaderStart
    \/ ReaderCheck
    \/ \E n \in 1..Len(imuPort) : ReaderRead(n)
    \/ ReaderReadTimeout
    \/ ReaderParse
    \/ ReaderAcquire
    \/ ReaderStore

SpecTrunc == InitReader /\ [][NextTrunc]_vars

(* the packets among the items written *)
PacketsWritten == {i \in DOMAIN imuSent : imuSent[i] = "P"}

(* the inner loop of _read_loop is not running *)
InnerLoopDone == pcReader \in {"test", "read", "exited"}

-----------------------------------------------------------------------------
(* Part 3: the serial decode loops.                                        *)
(* Frame: 0xAA | u16 LE length | payload | 0x55, read with blocking reads  *)
(* that have a timeout: read(k) returns the k bytes, or the fewer that     *)
(* arrived before the timeout.                                             *)

DOUBLE_SIZE == 8

(* GRID_CELLS stands for the 6 x 12 cells serial_worker reshapes to *)
GRID_CELLS == 2
MaxSerItems == 3

(* serial.Serial.read(k), the device being silent once the wire is empty *)
PortRead(w, k) ==
    [got |-> SubSeq(w, 1, Min(k, Len(w))), rest |-> Drop(w, Min(k, Len(w)))]

(* AllSensorsData.ParseFromString on the wire format: a message is a run   *)
(* of length-delimited `sensors` fields (tag 0x0A, one length byte, body); *)
(* a field that runs past the end of the data is a DecodeError.  The       *)
(* messages of the model hold no other field.                              *)
SENSORS_TAG == 10

RECURSIVE ParseFromString(_)
ParseFromString(data) ==
    IF data = <<>> THEN [ok |-> TRUE, sensors |-> <<>>]
    ELSE IF \/ data[1] # SENSORS_TAG
            \/ Len(data) < 2
            \/ Len(data) < 2 + data[2]
         THEN [ok |-> FALSE, sensors |-> <<>>]
         ELSE LET rest == ParseFromString(Drop(data, 2 + data[2]))
              IN  [ok |-> rest.ok,
                   sensors |-> <<SubSeq(data, 3, 2 + data[2])>> \o rest.sensors]

(* serial_worker's decoding of a payload: the exception it raises, or None *)
(* one body byte stands for one point of the sensor                        *)
WorkerDecodeError(data) ==
    LET m == ParseFromString(data)
    IN  IF ~m.ok THEN "DecodeError"
        ELSE IF m.sensors = <<>> THEN "IndexError"
        ELSE IF Len(m.sensors[1]) = 0
                \/ Len(m.sensors[1]) - 1 # GRID_CELLS THEN "ValueError"
        ELSE None

(* receive_data's struct.unpack(f'<{num_doubles}d', data_bytes) *)
RateDecodeError(data_length, data_bytes) ==
    LET num_doubles == data_length \div DOUBLE_SIZE
    IN  IF Len(data_bytes) # num_doubles * DOUBLE_SIZE THEN "struct.error"
        ELSE None

(* What the device writes:                                                 *)
(* D  a well-formed frame whose payload decodes                            *)
(* U  a well-formed frame whose payload does not decode                    *)
(* H  a start marker and one byte of the length field, after which the     *)
(*    device sends nothing for the time of a read timeout                  *)
(* Y  one byte that is no start marker                                     *)
SerItemNames == {"D", "U", "H", "Y"}

SerPayload(v, name) ==
    IF v = "worker"
    THEN IF name = "D"
         THEN <<SENSORS_TAG, GRID_CELLS + 1>> \o [i \in 1..(GRID_CELLS + 1) |-> 1]
         ELSE <<SENSORS_TAG, GRID_CELLS + 2>> \o [i \in 1..(GRID_CELLS + 1) |-> 1]
    ELSE IF name = "D"
         THEN [i \in 1..DOUBLE_SIZE |-> 1]
         ELSE [i \in 1..(DOUBLE_SIZE - 3) |-> 1]

SerBytes(v, name) ==
    CASE name = "Y" -> <<0>>
      [] name = "H" -> <<START, 1>>
      [] OTHER      -> WireFrame(SerPayload(v, name), TAIL)

(* One pass of the loop on the bytes w of the wire: one iteration of       *)
(* `while running` in serial_worker, one call of receive_data in the loop  *)
(* of __main__.  The result is [wire, outcome]; outcome is "frame",        *)
(* "dropped", "skipped" (serial_worker read a byte that is no marker),     *)
(* "waiting" (no marker has come yet) or the exception that left the loop. *)
DecodePass(v, w) ==
    LET at    == Find(w, START)
        skip  == IF v = "worker" THEN 0 ELSE at
        w1    == Drop(w, skip + 1)
        lenRd == PortRead(w1, 2)
    IN  IF w = <<>> \/ at = -1 \/ (v = "worker" /\ at # 0)
        THEN [wire |-> IF v = "worker" THEN Drop(w, 1) ELSE <<>>,
              outcome |-> IF v = "worker" /\ w # <<>> THEN "skipped"
                          ELSE "waiting"]
        ELSE IF Len(lenRd.got) < 2
        THEN [wire |-> lenRd.rest, outcome |-> "struct.error"]
        ELSE LET data_length == UnpackH(lenRd.got)
                 dataRd == PortRead(lenRd.rest, data_length)
                 endRd  == PortRead(dataRd.rest, 1)
             IN  IF endRd.got # <<TAIL>>
                 THEN [wire |-> endRd.rest, outcome |-> "dropped"]
                 ELSE IF v = "worker"
                 THEN [wire |-> endRd.rest,
                       outcome |-> IF WorkerDecodeError(dataRd.got) = None
                                   THEN "frame"
                                   ELSE WorkerDecodeError(dataRd.got)]
                 ELSE [wire |-> endRd.rest,
                       outcome |-> IF RateDecodeError(data_length, dataRd.got)
                                          = None
                                   THEN "frame" ELSE "dropped"]

(* the outcomes with which the pass ends and the loop goes round again:    *)
(* every exception ends serial_worker's loop, whose try wraps the `while`, *)
(* and leaves the loop of __main__, which handles KeyboardInterrupt only   *)
LoopGoesOn(outcome) ==
    outcome \in {"frame", "dropped", "skipped", "waiting"}

(* environment: the device writes one more item *)
SerSend(name) ==
    /\ Len(serSent) < MaxSerItems
    /\ serSent' = Append(serSent, name)
    /\ serWire' = serWire \o SerBytes(serVariant, name)
    /\ UNCHANGED <<serVariant, serAlive, serLog>>
    /\ UNCHANGED notSerial

(* one pass of the decode loop that reads bytes *)
SerialPass ==
    /\ serAlive
    /\ serWire # <<>>
    /\ LET r == DecodePass(serVariant, serWire)
       IN  /\ serWire' = r.wire
           /\ serLog' = Append(serLog, r.outcome)
           /\ serAlive' = LoopGoesOn(r.outcome)
    /\ UNCHANGED <<serVariant, serSent>>
    /\ UNCHANGED notSerial

(* the first read(1) of a pass times out on an empty wire *)
SerialTimeout ==
    /\ serAlive
    /\ serWire = <<>>
    /\ LoopGoesOn(DecodePass(serVariant, serWire).outcome)
    /\ UNCHANGED serialVars
    /\ UNCHANGED notSerial

InitSerialLoops ==
    /\ InitReceiver /\ variant = "wifi"
    /\ InitBus
    /\ \E v \in {"worker", "rate"} : InitSerial(v)
    /\ InitLater

NextSerial ==
    \/ \E name \in SerItemNames : SerSend(name)
    \/ SerialPass
    \/ SerialTimeout

SpecSerial == InitSerialLoops /\ [][NextSerial]_vars

(* C9: a frame whose payload does not decode and a length or payload read  *)
(* cut short by the timeout are dropped and the loop goes on: no exception *)
(* leaves the decode loop, the reader does not terminate.                  *)
C9_LoopNeverTerminates ==
    /\ serAlive
    /\ \A i \in DOMAIN serLog : LoopGoesOn(serLog[i])

-----------------------------------------------------------------------------
(* SpecTimer: the window's QTimer calls update_data, which calls receive() *)
(* on the accepted socket (blocking: the program never sets a timeout),    *)
(* and a timer calls get_latest_data; the peer sends or stays silent.      *)

TimerItemNames == {"G", "N"}

(* one receive() call, from sock.recv to its return *)
ReceiveCall ==
    \/ \E n \in 1..Min(Len(wire), RECV_SIZE) : RecvData(n)
    \/ RecvEof

NextTimer ==
    \/ ReceiveCall
    \/ \E name \in TimerItemNames : PeerSend(name)
    \/ PeerClose
    \/ GetAcquire(TimerConsumer)
    \/ ConsumerInLock

InitTimer ==
    /\ InitReceiver /\ variant = "wifi"
    /\ InitBus
    /\ InitSerial("worker")
    /\ InitLater

SpecTimer == InitTimer /\ [][NextTimer]_vars

(* C18: no step of the pipeline blocks without bound: while the peer sends *)
(* nothing, a receive() called from the GUI timer returns by itself, and a *)
(* get_latest_data() in progress takes its next step whether or not a new  *)
(* frame has been stored.                                                  *)
C18_NeverBlocks ==
    /\ (pcMain = "running" /\ wire = <<>> /\ ~peerClosed)
           => ENABLED ReceiveCall
    /\ pcGet[TimerConsumer] # "idle" => ENABLED ConsumerInLock

-----------------------------------------------------------------------------
(* Part 4: frame rate                                                      *)

(* FrameRateTracker(window_size=10) *)
window_size == 10

MaxFpsClock == 2
MaxStamps == 31

(* deque(maxlen=...) of the source *)
WindowOf(src) == IF src = "wifi" THEN FPS_WINDOW ELSE window_size

(* deque(maxlen=maxlen).append *)
DequeAppendMax(dq, x, maxlen) ==
    IF Len(dq) >= maxlen THEN Append(Tail(dq), x) ELSE Append(dq, x)

(* a quotient num / den, kept exact *)
FpsValue(num, den) == [kind |-> "value", num |-> num, den |-> den]

ZeroDivisionError == [kind |-> "raise", num |-> 0, den |-> 1]

(* time_diff <= 0 of FrameRateTracker.get_fps *)
TimeDiffGuard(src, time_diff) == src = "tracker" /\ time_diff <= 0

get_fps(src, ts) ==
    IF Len(ts) < 2 THEN FpsValue(0, 1)
    ELSE LET time_diff == ts[Len(ts)] - ts[1]
         IN  IF TimeDiffGuard(src, time_diff) THEN FpsValue(0, 1)
             ELSE IF time_diff = 0 THEN ZeroDivisionError
             ELSE FpsValue(Len(ts) - 1, time_diff)

(* update() / self.fps_tracker.append(time.time()) *)
FpsUpdate ==
    /\ fpsRet.kind # "raise"
    /\ Len(stamps) < MaxStamps
    /\ timestamps' = DequeAppendMax(timestamps, fpsClock, WindowOf(fpsSource))
    /\ stamps' = Append(stamps, fpsClock)
    /\ fpsRet' = NoFps
    /\ UNCHANGED <<fpsSource, fpsClock>>
    /\ UNCHANGED notFps

(* the loop of __main__: fps = get_fps(); an exception ends the program *)
FpsGet ==
    /\ fpsRet.kind = "none"
    /\ fpsRet' = get_fps(fpsSource, timestamps)
    /\ UNCHANGED <<fpsSource, timestamps, fpsClock, stamps>>
    /\ UNCHANGED notFps

(* environment: the clock advances *)
FpsTick ==
    /\ fpsClock < MaxFpsClock
    /\ fpsClock' = fpsClock + 1
    /\ UNCHANGED <<fpsSource, timestamps, fpsRet, stamps>>
    /\ UNCHANGED notFps

InitFpsSpec ==
    /\ InitReceiver /\ variant = "wifi"
    /\ InitBus
    /\ InitSerial("rate")
    /\ \E src \in {"tracker", "wifi"} : InitFps(src)
    /\ InitShared
    /\ InitMain(0)
    /\ InitMore

NextFps == FpsUpdate \/ FpsGet \/ FpsTick

SpecFps == InitFpsSpec /\ [][NextFps]_vars

(* the last n elements of a sequence *)
LastOf(seq, n) == SubSeq(seq, Len(seq) - n + 1, Len(seq))

(* C17: get_fps() returns 0 when fewer than 2 timestamps are recorded, and *)
(* otherwise (k-1)/(newest-oldest) over the k timestamps in the window;    *)
(* the window holds the most recent N recorded timestamps, or all of them  *)
(* while they are fewer than N (N = 10 or 30).                             *)
C17_GetFps ==
    LET k == Len(timestamps)
        N == WindowOf(fpsSource)
    IN  /\ k = IF Len(stamps) < N THEN Len(stamps) ELSE N
        /\ timestamps = LastOf(stamps, k)
        /\ fpsRet.kind # "none" =>
              /\ fpsRet.kind = "value"
              /\ fpsRet.den # 0
              /\ IF k < 2 THEN fpsRet.num = 0
                 ELSE fpsRet.num * (timestamps[k] - timestamps[1])
                          = (k - 1) * fpsRet.den

(* C24: HighSpeedReceiver.get_fps returns a number and raises no error for *)
(* every content of the timestamp window, also for a window of two or more *)
(* timestamps that are all equal (frames extracted in one drain burst      *)
(* within the resolution of the clock).                                    *)
C24_GetFpsTotal ==
    (fpsSource = "wifi" /\ fpsRet.kind # "none") => fpsRet.kind = "value"

-----------------------------------------------------------------------------
(* Part 5: shared_state between the GUI and the controller                 *)
(* Each program is started as its own interpreter; the import statement    *)
(* runs shared_state.py in that interpreter and binds the object made      *)
(* there.  Assignments are made under that object's lock; one assignment   *)
(* or one read is one step.                                                *)

(* process p assigns shared_state.<field> = value *)
Assign(p, field, value) ==
    /\ shared_state' = [shared_state EXCEPT ![p][field] = value]
    /\ written' = [written EXCEPT ![field] = value]

(* process p reads shared_state.<field> *)
Read(p, field) ==
    readLog' = [by |-> p, field |-> field,
                value |-> shared_state[p][field],
                latest |-> written[field]]

(* PoseVisualizer3D.keyPressEvent, Key_Space *)
keyPressSpace ==
    /\ pcGui = "open"
    /\ Assign("gui", "control_active", TRUE)
    /\ UNCHANGED <<pcGui, pcCtl, readLog>>
    /\ UNCHANGED notShared

(* PoseVisualizer3D.keyPressEvent, Key_R *)
keyPressR ==
    /\ pcGui = "open"
    /\ Assign("gui", "reset_zero_pose_requested", TRUE)
    /\ UNCHANGED <<pcGui, pcCtl, readLog>>
    /\ UNCHANGED notShared

(* PoseVisualizer3D.keyReleaseEvent, Key_Space *)
keyReleaseSpace ==
    /\ pcGui = "open"
    /\ Assign("gui", "control_active", FALSE)
    /\ UNCHANGED <<pcGui, pcCtl, readLog>>
    /\ UNCHANGED notShared

(* PoseVisualizer3D.closeEvent: the user closes the window *)
closeEvent ==
    /\ pcGui = "open"
    /\ Assign("gui", "is_running", FALSE)
    /\ pcGui' = "closed"
    /\ UNCHANGED <<pcCtl, readLog>>
    /\ UNCHANGED notShared

(* PoseVisualizer3D.update_ui, on the 33 ms timer: if not is_running, the  *)
(* window closes itself, which runs closeEvent                             *)
update_ui ==
    /\ pcGui = "open"
    /\ Read("gui", "is_running")
    /\ IF shared_state["gui"].is_running
       THEN UNCHANGED <<shared_state, written, pcGui>>
       ELSE /\ Assign("gui", "is_running", FALSE)
            /\ pcGui' = "closed"
    /\ UNCHANGED pcCtl
    /\ UNCHANGED notShared

(* control_loop: while shared_state.is_running; got says whether           *)
(* get_latest_data returned a packet (without one the loop sleeps and      *)
(* tests again)                                                            *)
CtlTest(got) ==
    /\ pcCtl = "test"
    /\ Read("controller", "is_running")
    /\ pcCtl' = IF ~shared_state["controller"].is_running THEN "finally"
                ELSE IF got THEN "reset" ELSE "test"
    /\ UNCHANGED <<shared_state, written, pcGui>>
    /\ UNCHANGED notShared

(* control_loop: if shared_state.reset_zero_pose_requested: ... = False *)
CtlReset ==
    /\ pcCtl = "reset"
    /\ Read("controller", "reset_zero_pose_requested")
    /\ IF shared_state["controller"].reset_zero_pose_requested
       THEN Assign("controller", "reset_zero_pose_requested", FALSE)
       ELSE UNCHANGED <<shared_state, written>>
    /\ pcCtl' = "active"
    /\ UNCHANGED pcGui
    /\ UNCHANGED notShared

(* control_loop: if shared_state.control_active and ...: the command and   *)
(* the status follow the value read                                        *)
CtlActive ==
    /\ pcCtl = "active"
    /\ Read("controller", "control_active")
    /\ pcCtl' = "test"
    /\ UNCHANGED <<shared_state, written, pcGui>>
    /\ UNCHANGED notShared

(* __main__ of the controller: KeyboardInterrupt anywhere in control_loop *)
CtlInterrupt ==
    /\ pcCtl \in {"test", "reset", "active"}
    /\ pcCtl' = "finally"
    /\ UNCHANGED <<shared_state, written, pcGui, readLog>>
    /\ UNCHANGED notShared

(* __main__ of the controller: finally: shared_state.is_running = False *)
CtlFinally ==
    /\ pcCtl = "finally"
    /\ Assign("controller", "is_running", FALSE)
    /\ pcCtl' = "done"
    /\ UNCHANGED <<pcGui, readLog>>
    /\ UNCHANGED notShared

InitSharedSpec ==
    /\ InitReceiver /\ variant = "wifi"
    /\ InitBus
    /\ InitSerial("worker")
    /\ InitFps("tracker")
    /\ InitShared
    /\ InitMain(0)
    /\ InitMore

NextShared ==
    \/ keyPressSpace
    \/ keyPressR
    \/ keyReleaseSpace
    \/ closeEvent
    \/ update_ui
    \/ \E got \in BOOLEAN : CtlTest(got)
    \/ CtlReset
    \/ CtlActive
    \/ CtlInterrupt
    \/ CtlFinally

SpecShared == InitSharedSpec /\ [][NextShared]_vars

(* C19: the GUI and the controller, each started as its own program,       *)
(* operate on one and the same SharedState: every read of control_active,  *)
(* reset_zero_pose_requested or is_running by one of them returns the      *)
(* value last assigned to that field, whichever of the two assigned it.    *)
C19_OneSharedState ==
    /\ shared_state["gui"] = shared_state["controller"]
    /\ readLog.by # "nobody" => readLog.value = readLog.latest

-----------------------------------------------------------------------------
(* Part 6: read_data of src/main.py                                        *)
(* The device writes garbage bytes and then well-formed frames back to     *)
(* back, without end: the stream is given by the garbage left and the      *)
(* offset in the frame.  A ser.read(n) returns n bytes, or fewer when the  *)
(* timeout of 0.01 s ends it.                                              *)

num_rows == 6
num_cols == 6
data_length == num_rows * num_cols

MAIN_HEADER == <<170, 187>>
MAIN_FOOTER == <<204, 221>>

MaxGarbage == 3

(* one frame on the wire: every value is 0x0101 *)
MainFrame == MAIN_HEADER \o [i \in 1..(data_length * 2) |-> 1] \o MAIN_FOOTER

MainFrameLen == Len(MainFrame)

(* the byte i places ahead in the stream (i = 0 is the next one) *)
StreamByte(i) ==
    IF i < mGarbage THEN 0
    ELSE MainFrame[((mOffset + i - mGarbage) % MainFrameLen) + 1]

(* ser.read takes k bytes out of the stream *)
Consume(k) ==
    /\ mGarbage' = IF k < mGarbage THEN mGarbage - k ELSE 0
    /\ mOffset' = IF k < mGarbage THEN mOffset
                  ELSE (mOffset + k - mGarbage) % MainFrameLen

(* update_frame, called by FuncAnimation: matrix = read_data() *)
CallReadData ==
    /\ pcRead = "idle"
    /\ pcRead' = "header"
    /\ mRet' = "pending"
    /\ UNCHANGED <<mGarbage, mOffset, mShort>>
    /\ UNCHANGED notMain

(* header = ser.read(2), k bytes read *)
ReadHeader(k) ==
    /\ pcRead = "header"
    /\ Consume(k)
    /\ IF k < 2
       THEN /\ mRet' = "None"
            /\ pcRead' = "idle"
            /\ mShort' = TRUE
       ELSE /\ pcRead' = IF <<StreamByte(0), StreamByte(1)>> = MAIN_HEADER
                         THEN "data" ELSE "header"
            /\ UNCHANGED <<mRet, mShort>>
    /\ UNCHANGED notMain

(* data_bytes = ser.read(data_length * 2), k bytes read *)
ReadDataBytes(k) ==
    /\ pcRead = "data"
    /\ Consume(k)
    /\ IF k < data_length * 2
       THEN /\ mRet' = "None"
            /\ pcRead' = "idle"
            /\ mShort' = TRUE
       ELSE /\ pcRead' = "footer"
            /\ UNCHANGED <<mRet, mShort>>
    /\ UNCHANGED notMain

(* footer = ser.read(2), k bytes read; with the footer 0xCC 0xDD the       *)
(* matrix is returned, else None                                           *)
ReadFooter(k) ==
    /\ pcRead = "footer"
    /\ Consume(k)
    /\ pcRead' = "idle"
    /\ IF k < 2
       THEN /\ mRet' = "None"
            /\ mShort' = TRUE
       ELSE /\ mRet' = IF <<StreamByte(0), StreamByte(1)>> = MAIN_FOOTER
                       THEN "matrix" ELSE "None"
            /\ UNCHANGED mShort
    /\ UNCHANGED notMain

(* the reads that get all their bytes *)
FullReads ==
    \/ CallReadData
    \/ ReadHeader(2)
    \/ ReadDataBytes(data_length * 2)
    \/ ReadFooter(2)

(* the reads that time out with 0 bytes or 1 byte *)
ShortReads ==
    \E k \in {0, 1} : ReadHeader(k) \/ ReadDataBytes(k) \/ ReadFooter(k)

InitMainSpec ==
    /\ InitReceiver /\ variant = "wifi"
    /\ InitBus
    /\ InitSerial("worker")
    /\ InitFps("tracker")
    /\ InitShared
    /\ \E g \in 0..MaxGarbage : InitMain(g)
    /\ InitMore

NextMain == FullReads \/ ShortReads

(* the animation goes on calling read_data, and the device goes on writing *)
SpecMain ==
    /\ InitMainSpec
    /\ [][NextMain]_vars
    /\ WF_vars(FullReads)

(* C20: read_data regains frame alignment from any starting byte offset:   *)
(* for a stream of back-to-back well-formed frames preceded by any number  *)
(* of garbage bytes, odd or even, repeated calls eventually return a       *)
(* frame (as long as no read times out short).                             *)
C20_Realigns == <>(mRet = "matrix" \/ mShort)

(* C22: in HighSpeedReceiver.receive, a well-formed frame extracted       *)
(* earlier in a drain burst is still returned, and latest_reversed_data is *)
(* updated from it, when a later frame of the same burst has a valid       *)
(* trailer but a payload that cannot be converted to the ROWS x COLS float *)
(* array: the codec failure drops only the failing frame.                  *)
C22_EarlierFrameKept ==
    \A j \in 1..Len(xcalls) : \A k \in 1..(j - 1) :
        (/\ xcalls[j].kind = "raise"
         /\ xcalls[k].kind = "frame"
         /\ \A i \in (k + 1)..(j - 1) : xcalls[i].kind # "frame")
            => /\ ret # None
               /\ ret = xcalls[k].data
               /\ latest_reversed_data = ReversedRows(xcalls[k].data)

-----------------------------------------------------------------------------
(* Part 7: MainWindow.receive_protobuf_data of                             *)
(* src/protobuf复杂编码到numpy高速(win).py, called by a QTimer with         *)
(* interval 0.  Frame: 0xAA | u16 LE length | payload | 0x55.  Every read  *)
(* is made behind a check of in_waiting and takes its bytes out of the     *)
(* port's input buffer; the program keeps no buffer of its own.            *)

MaxPbFrames == 2

(* what the device writes: well-formed frames whose payload decodes *)
PbFrame == WireFrame(SerPayload("worker", "D"), TAIL)

PbFrameLen == Len(PbFrame)

RECURSIVE PbStream(_)
PbStream(n) == IF n = 0 THEN <<>> ELSE PbFrame \o PbStream(n - 1)

(* One call on the input buffer w.  The result is the input buffer after   *)
(* the call and what the call returned; kind is                            *)
(*   "short"   None: fewer than 3 bytes wait after the marker scan, or     *)
(*             fewer than message_length + 1 after the length field        *)
(*   "dropped" None: wrong end byte, or ParseFromString failed             *)
(*   "frame"   the message parsed from data                                *)
receive_protobuf_data(w) ==
    LET at    == Find(w, START)
        \* while in_waiting > 0: read(1), until it is the marker
        w1    == IF at = -1 THEN <<>> ELSE Drop(w, at + 1)
    IN  IF ~(Len(w1) >= 3)
        THEN [waiting |-> w1, kind |-> "short", data |-> <<>>]
        ELSE LET message_length == UnpackH(SubSeq(w1, 1, 2))
                 w2 == Drop(w1, 2)
             IN  IF Len(w2) < message_length + 1
                 THEN [waiting |-> w2, kind |-> "short", data |-> <<>>]
                 ELSE LET message_data == SubSeq(w2, 1, message_length)
                          end_byte == w2[message_length + 1]
                          w3 == Drop(w2, message_length + 1)
                      IN  IF end_byte # TAIL \/ ~ParseFromString(message_data).ok
                          THEN [waiting |-> w3, kind |-> "dropped",
                                data |-> <<>>]
                          ELSE [waiting |-> w3, kind |-> "frame",
                                data |-> message_data]

(* update_data, on the timer: all_sensors_data = receive_protobuf_data() *)
PbCall ==
    /\ \E r \in {receive_protobuf_data(pbWaiting)} :
          /\ pbWaiting' = r.waiting
          /\ pbRet' = [kind |-> r.kind, data |-> r.data]
          /\ pbReturned' = IF r.kind = "frame"
                           THEN Append(pbReturned, r.data) ELSE pbReturned
    /\ UNCHANGED pbSent
    /\ UNCHANGED notProto

(* environment: the next n bytes of the stream reach the input buffer *)
PbArrive(n) ==
    /\ pbSent + n <= MaxPbFrames * PbFrameLen
    /\ pbWaiting' =
          pbWaiting \o SubSeq(PbStream(MaxPbFrames), pbSent + 1, pbSent + n)
    /\ pbSent' = pbSent + n
    /\ UNCHANGED <<pbRet, pbReturned>>
    /\ UNCHANGED notProto

NextProto == PbCall \/ \E n \in 1..PbFrameLen : PbArrive(n)

SpecProto == Init /\ [][NextProto]_vars

(* C21: receive_protobuf_data does not consume part of a frame: when a     *)
(* call has returned None because the length field, the payload or the     *)
(* trailer had not fully arrived, a later call made after the remaining    *)
(* bytes arrived returns that same frame.  So once whole frames have       *)
(* arrived and the calls have emptied the input buffer, every one of them  *)
(* has been returned.                                                      *)
C21_NoPartialConsume ==
    (pbWaiting = <<>> /\ pbSent % PbFrameLen = 0)
        => Len(pbReturned) = pbSent \div PbFrameLen

-----------------------------------------------------------------------------
(* Part 8: the controller, fr3_imu_tracker.py: the reader thread running   *)
(* _read_loop, the main thread running control_loop and then the finally   *)
(* block of __main__.  A `with shared_state.lock` block is two steps, the  *)
(* acquisition and the body with the release; a packet stands for the      *)
(* bytes of one validated IMU packet.                                      *)

MaxCtlPackets == 2

ctlFlags == <<ctlRunning, ctlActive, ctlReset, ctlConnected>>
ctlDevice == <<ctlPort, ctlSent>>
ctlReader == <<pcRd, rdPending, ctlReadClosed>>
ctlLoop == <<pcCtrl, ctlInitial, ctlCmd, ctlLast, ctlTwist, ctlOff>>

(* _read_loop: while shared_state.is_running and self.ser *)
RdTest ==
    /\ pcRd = "test"
    /\ pcRd' = IF ctlRunning THEN "read" ELSE "exited"
    /\ UNCHANGED <<rdPending, ctlReadClosed>>
    /\ UNCHANGED <<ctlFlags, ctlDevice, ctlLoop, ctlLock, ctlPortOpen, ctlCell>>
    /\ UNCHANGED notDrive

(* _read_loop: self.ser.read(self.ser.in_waiting or 1).  On a closed port  *)
(* pyserial raises a SerialException and the loop breaks; with nothing to  *)
(* read the call times out; else the packets read are parsed.              *)
RdRead ==
    /\ pcRd = "read"
    /\ IF ~ctlPortOpen
       THEN /\ pcRd' = "exited"
            /\ ctlReadClosed' = TRUE
            /\ UNCHANGED <<rdPending, ctlPort>>
       ELSE /\ pcRd' = IF ctlPort > 0 THEN "store" ELSE "test"
            /\ rdPending' = ctlPort
            /\ ctlPort' = 0
            /\ UNCHANGED ctlReadClosed
    /\ UNCHANGED <<ctlFlags, ctlSent, ctlLoop, ctlLock, ctlPortOpen, ctlCell>>
    /\ UNCHANGED notDrive

(* _read_loop: with self.lock *)
RdEnter ==
    /\ pcRd = "store"
    /\ ctlLock = None
    /\ ctlLock' = "reader"
    /\ pcRd' = "inStore"
    /\ UNCHANGED <<rdPending, ctlReadClosed>>
    /\ UNCHANGED <<ctlFlags, ctlDevice, ctlLoop, ctlPortOpen, ctlCell>>
    /\ UNCHANGED notDrive

(* _read_loop: self.latest_data_packet = np.array(...), the lock released *)
RdStore ==
    /\ pcRd = "inStore"
    /\ ctlCell' = TRUE
    /\ ctlLock' = None
    /\ rdPending' = rdPending - 1
    /\ pcRd' = IF rdPending > 1 THEN "store" ELSE "test"
    /\ UNCHANGED ctlReadClosed
    /\ UNCHANGED <<ctlFlags, ctlDevice, ctlLoop, ctlPortOpen>>
    /\ UNCHANGED notDrive

(* the `with shared_state.lock` statements of the main thread: the         *)
(* position before the statement and the position inside it                *)
WithBlocks ==
    {<<"connect", "inConnect">>, <<"get", "inGet">>, <<"euler", "inEuler">>,
     <<"reset", "inReset">>, <<"status", "inStatus">>,
     <<"finally", "inFinally">>}

(* the main thread acquires the lock *)
MainEnter ==
    /\ \E w \in WithBlocks :
          /\ pcCtrl = w[1]
          /\ pcCtrl' = w[2]
    /\ ctlLock = None
    /\ ctlLock' = "main"
    /\ UNCHANGED <<ctlInitial, ctlCmd, ctlLast, ctlTwist, ctlOff>>
    /\ UNCHANGED <<ctlFlags, ctlDevice, ctlReader, ctlPortOpen, ctlCell>>
    /\ UNCHANGED notDrive

(* control_loop: Robot(ROBOT_IP) connects or raises, under the lock        *)
(* shared_state.robot_connected is set accordingly                         *)
LeaveConnect ==
    /\ pcCtrl = "inConnect"
    /\ \E c \in BOOLEAN : ctlConnected' = c
    /\ ctlLock' = None
    /\ pcCtrl' = "while"
    /\ UNCHANGED <<ctlInitial, ctlCmd, ctlLast, ctlTwist, ctlOff>>
    /\ UNCHANGED <<ctlRunning, ctlActive, ctlReset>>
    /\ UNCHANGED <<ctlDevice, ctlReader, ctlPortOpen, ctlCell>>
    /\ UNCHANGED notDrive

(* control_loop: while shared_state.is_running *)
LoopTest ==
    /\ pcCtrl = "while"
    /\ pcCtrl' = IF ctlRunning THEN "get" ELSE "stop"
    /\ UNCHANGED <<ctlInitial, ctlCmd, ctlLast, ctlTwist, ctlOff>>
    /\ UNCHANGED <<ctlFlags, ctlDevice, ctlReader, ctlLock, ctlPortOpen, ctlCell>>
    /\ UNCHANGED notDrive

(* get_latest_data: the cell is read and cleared, the lock released; with  *)
(* None the loop sleeps and continues                                      *)
LeaveGet ==
    /\ pcCtrl = "inGet"
    /\ ctlCell' = FALSE
    /\ ctlLock' = None
    /\ pcCtrl' = IF ctlCell THEN "euler" ELSE "while"
    /\ ctlOff' = IF ctlCell THEN ~ctlActive ELSE ctlOff
    /\ UNCHANGED <<ctlInitial, ctlCmd, ctlLast, ctlTwist>>
    /\ UNCHANGED <<ctlFlags, ctlDevice, ctlReader, ctlPortOpen>>
    /\ UNCHANGED notDrive

(* control_loop: shared_state.latest_imu_euler = euler_angles_deg *)
LeaveEuler ==
    /\ pcCtrl = "inEuler"
    /\ ctlLock' = None
    /\ pcCtrl' = "resetTest"
    /\ UNCHANGED <<ctlInitial, ctlCmd, ctlLast, ctlTwist, ctlOff>>
    /\ UNCHANGED <<ctlFlags, ctlDevice, ctlReader, ctlPortOpen, ctlCell>>
    /\ UNCHANGED notDrive

(* control_loop: if shared_state.reset_zero_pose_requested *)
ResetTest ==
    /\ pcCtrl = "resetTest"
    /\ ctlInitial' = (ctlInitial \/ ctlReset)
    /\ pcCtrl' = IF ctlReset THEN "reset" ELSE "command"
    /\ UNCHANGED <<ctlCmd, ctlLast, ctlTwist, ctlOff>>
    /\ UNCHANGED <<ctlFlags, ctlDevice, ctlReader, ctlLock, ctlPortOpen, ctlCell>>
    /\ UNCHANGED notDrive

(* control_loop: shared_state.reset_zero_pose_requested = False *)
LeaveReset ==
    /\ pcCtrl = "inReset"
    /\ ctlReset' = FALSE
    /\ ctlLock' = None
    /\ pcCtrl' = "command"
    /\ UNCHANGED <<ctlInitial, ctlCmd, ctlLast, ctlTwist, ctlOff>>
    /\ UNCHANGED <<ctlRunning, ctlActive, ctlConnected>>
    /\ UNCHANGED <<ctlDevice, ctlReader, ctlPortOpen, ctlCell>>
    /\ UNCHANGED notDrive

(* control_loop: tool_velocity_command is zeros, or the P_GAIN multiple of *)
(* the rotation error, which is zero when the robot is on the target       *)
Command ==
    /\ pcCtrl = "command"
    /\ IF ctlActive /\ ctlConnected /\ ctlInitial
       THEN \E c \in {"zero", "nonzero"} : ctlCmd' = c
       ELSE ctlCmd' = "zero"
    /\ pcCtrl' = "status"
    /\ UNCHANGED <<ctlInitial, ctlLast, ctlTwist, ctlOff>>
    /\ UNCHANGED <<ctlFlags, ctlDevice, ctlReader, ctlLock, ctlPortOpen, ctlCell>>
    /\ UNCHANGED notDrive

(* control_loop: latest_velocity_command and controller_status are set *)
LeaveStatus ==
    /\ pcCtrl = "inStatus"
    /\ ctlLock' = None
    /\ pcCtrl' = "send"
    /\ UNCHANGED <<ctlInitial, ctlCmd, ctlLast, ctlTwist, ctlOff>>
    /\ UNCHANGED <<ctlFlags, ctlDevice, ctlReader, ctlPortOpen, ctlCell>>
    /\ UNCHANGED notDrive

(* control_loop: robot.move(CartesianVelocityMotion(twist, ...)) when the  *)
(* robot is connected and control is active or the last command was not    *)
(* zero; then the sleep to the end of the period                           *)
SendTwist ==
    /\ pcCtrl = "send"
    /\ IF ctlConnected /\ (ctlActive \/ ctlLast # "zero")
       THEN /\ ctlTwist' = ctlCmd
            /\ ctlLast' = ctlCmd
       ELSE UNCHANGED <<ctlTwist, ctlLast>>
    /\ pcCtrl' = "while"
    /\ UNCHANGED <<ctlInitial, ctlCmd, ctlOff>>
    /\ UNCHANGED <<ctlFlags, ctlDevice, ctlReader, ctlLock, ctlPortOpen, ctlCell>>
    /\ UNCHANGED notDrive

(* control_loop after the loop: the zero twist, if the robot is connected *)
StopRobot ==
    /\ pcCtrl = "stop"
    /\ ctlTwist' = IF ctlConnected THEN "zero" ELSE ctlTwist
    /\ pcCtrl' = "finally"
    /\ UNCHANGED <<ctlInitial, ctlCmd, ctlLast, ctlOff>>
    /\ UNCHANGED <<ctlFlags, ctlDevice, ctlReader, ctlLock, ctlPortOpen, ctlCell>>
    /\ UNCHANGED notDrive

(* the positions of the main thread inside control_loop *)
InControlLoop ==
    {"connect", "inConnect", "while", "get", "inGet", "euler", "inEuler",
     "resetTest", "reset", "inReset", "command", "status", "inStatus",
     "send", "stop"}

(* the lock after the exception has left the `with` block, if it was in one *)
WithExitKeeps(holder) == holder

WithExit(holder) == IF holder = "main" THEN None ELSE holder

(* Ctrl-C: KeyboardInterrupt is raised in the main thread, __main__         *)
(* catches it and goes to its finally block                                *)
KeyboardInterrupt ==
    /\ pcCtrl \in InControlLoop
    /\ ctlLock' = WithExit(ctlLock)
    /\ pcCtrl' = "finally"
    /\ UNCHANGED <<ctlInitial, ctlCmd, ctlLast, ctlTwist, ctlOff>>
    /\ UNCHANGED <<ctlFlags, ctlDevice, ctlReader, ctlPortOpen, ctlCell>>
    /\ UNCHANGED notDrive

(* __main__, finally: shared_state.is_running = False *)
LeaveFinally ==
    /\ pcCtrl = "inFinally"
    /\ ctlRunning' = FALSE
    /\ ctlLock' = None
    /\ pcCtrl' = "close"
    /\ UNCHANGED <<ctlInitial, ctlCmd, ctlLast, ctlTwist, ctlOff>>
    /\ UNCHANGED <<ctlActive, ctlReset, ctlConnected>>
    /\ UNCHANGED <<ctlDevice, ctlReader, ctlPortOpen, ctlCell>>
    /\ UNCHANGED notDrive

(* __main__, finally: reader.close(), which closes the port *)
ReaderClose ==
    /\ pcCtrl = "close"
    /\ ctlPortOpen' = FALSE
    /\ pcCtrl' = "done"
    /\ UNCHANGED <<ctlInitial, ctlCmd, ctlLast, ctlTwist, ctlOff>>
    /\ UNCHANGED <<ctlFlags, ctlDevice, ctlReader, ctlLock, ctlCell>>
    /\ UNCHANGED notDrive

(* environment: the IMU writes one more packet *)
ImuWrites ==
    /\ ctlSent < MaxCtlPackets
    /\ ctlSent' = ctlSent + 1
    /\ ctlPort' = ctlPort + 1
    /\ UNCHANGED <<ctlFlags, ctlReader, ctlLoop, ctlLock, ctlPortOpen, ctlCell>>
    /\ UNCHANGED notDrive

(* shared_state.control_active is assigned: keyPressEvent (True) and       *)
(* keyReleaseEvent (False) of the window, space bar                        *)
SetControlActive(b) ==
    /\ ctlActive # b
    /\ ctlActive' = b
    /\ ctlOff' = (ctlOff /\ ~b)
    /\ UNCHANGED <<pcCtrl, ctlInitial, ctlCmd, ctlLast, ctlTwist>>
    /\ UNCHANGED <<ctlRunning, ctlReset, ctlConnected>>
    /\ UNCHANGED <<ctlDevice, ctlReader, ctlLock, ctlPortOpen, ctlCell>>
    /\ UNCHANGED notDrive

(* shared_state.is_running is assigned False: closeEvent of the window *)
SetNotRunning ==
    /\ ctlRunning
    /\ ctlRunning' = FALSE
    /\ UNCHANGED <<ctlActive, ctlReset, ctlConnected>>
    /\ UNCHANGED <<ctlDevice, ctlReader, ctlLoop, ctlLock, ctlPortOpen, ctlCell>>
    /\ UNCHANGED notDrive

ReaderSteps == RdTest \/ RdRead \/ RdEnter \/ RdStore

MainSteps ==
    \/ MainEnter
    \/ LeaveConnect
    \/ LoopTest
    \/ LeaveGet
    \/ LeaveEuler
    \/ ResetTest
    \/ LeaveReset
    \/ Command
    \/ LeaveStatus
    \/ SendTwist
    \/ StopRobot
    \/ LeaveFinally
    \/ ReaderClose

NextDrive ==
    \/ ReaderSteps
    \/ MainSteps
    \/ KeyboardInterrupt
    \/ ImuWrites
    \/ \E b \in BOOLEAN : SetControlActive(b)
    \/ SetNotRunning

(* the two threads are scheduled: each goes on while it can take a step *)
SpecDrive ==
    /\ Init
    /\ [][NextDrive]_vars
    /\ WF_vars(ReaderSteps)
    /\ WF_vars(MainSteps)

(* C23: where the port is closed without joining the reader                *)
(* (SerialDataReader.close of fr3_imu_tracker.py, and main leaving its     *)
(* `with serial.Serial` block in the multi-thread protobuf script), the    *)
(* reader thread has observed the stop flag and stopped reading before the *)
(* port is closed; no read is ever issued on a closed port.                *)
C23_StoppedBeforeClose ==
    /\ ~ctlPortOpen => pcRd = "exited"
    /\ ~ctlReadClosed

(* the main thread, or the reader thread, is at a `with` statement and    *)
(* requests the lock                                                       *)
MainRequests == pcCtrl \in {w[1] : w \in WithBlocks}
ReaderRequests == pcRd = "store"

(* C30: no execution of the controller deadlocks on shared_state.lock, the *)
(* non-reentrant lock that SerialDataReader also uses for its latest       *)
(* packet: the lock is never requested by a thread that already holds it,  *)
(* it is held only inside a `with` body, and every acquisition by the      *)
(* reader thread, the control loop or the shutdown path is followed by a   *)
(* release.                                                                *)
C30_NoLockDeadlock ==
    /\ [](MainRequests => ctlLock # "main")
    /\ [](ReaderRequests => ctlLock # "reader")
    /\ [](ctlLock = "main" => pcCtrl \in {w[2] : w \in WithBlocks})
    /\ [](ctlLock = "reader" => pcRd = "inStore")
    /\ (ctlLock = "main" ~> ctlLock # "main")
    /\ (ctlLock = "reader" ~> ctlLock # "reader")

(* C30 witness: the shutdown path requests the lock while the reader       *)
(* thread holds it to store a packet, after Ctrl-C                         *)
C30_Witness ==
    /\ pcCtrl = "finally"
    /\ ctlLock = "reader"
    /\ ctlRunning

(* C29: in control_loop, after control_active has become False following  *)
(* a non-zero velocity command, a zero twist is eventually sent to the     *)
(* robot, also when no further IMU packet arrives (unless control becomes  *)
(* active again or Ctrl-C ends control_loop first); and no non-zero twist  *)
(* is sent in an iteration during which control_active stayed False.       *)
C29_ZeroAfterRelease ==
    /\ (ctlTwist = "nonzero" /\ ~ctlActive)
           ~> (ctlTwist = "zero" \/ ctlActive \/ pcCtrl \notin InControlLoop)
    /\ [][(/\ pcCtrl = "send" /\ pcCtrl' = "while"
           /\ ctlTwist' = "nonzero"
           /\ ctlConnected /\ (ctlActive \/ ctlLast # "zero"))
              => ~ctlOff]_vars

-----------------------------------------------------------------------------
(* Part 9: the loop of src/Glove_Quick.py.  Packet: 0xAA | data | 0x55,    *)
(* found in the buffer with buffer.find(HEADER) and buffer.find(FOOTER).   *)

HEADER == <<START>>
FOOTER == <<TAIL>>
BUFFER_LIMIT == 1024

MaxGqItems == 4

(* the inner `while True`: packets are cut out of the buffer for as long   *)
(* as the first header lies before the first footer                        *)
(* acc = [buffer, packets]                                                 *)
RECURSIVE ExtractPackets(_)
ExtractPackets(acc) ==
    LET header_index == FindBytes(acc.buffer, HEADER)
        footer_index == FindBytes(acc.buffer, FOOTER)
    IN  IF header_index # -1 /\ footer_index > header_index
        THEN LET data_start == header_index + Len(HEADER)
                 data_end   == footer_index
                 data == Slice(acc.buffer, data_start, data_end)
             IN  ExtractPackets(
                     [buffer |-> Drop(acc.buffer, footer_index + Len(FOOTER)),
                      packets |-> Append(acc.packets, data)])
        ELSE acc

(* if len(buffer) > BUFFER_LIMIT: buffer = b"" *)
AfterOverflowCheck(buf) == IF Len(buf) > BUFFER_LIMIT THEN <<>> ELSE buf

(* What the device writes:                                                 *)
(* F  a packet, 0xAA, four data bytes, 0x55                                *)
(* T  the byte 0x55 alone                                                  *)
(* N  one byte that is neither marker                                      *)
GqItemNames == {"F", "T", "N"}

GqBytes(name) ==
    CASE name = "F" -> HEADER \o <<1, 0, 0, 0>> \o FOOTER
      [] name = "T" -> FOOTER
      [] OTHER      -> <<0>>

(* environment: the device writes one more item *)
GqSend(name) ==
    /\ Len(gqSent) < MaxGqItems
    /\ gqSent' = Append(gqSent, name)
    /\ gqPort' = gqPort \o GqBytes(name)
    /\ UNCHANGED <<gqBuffer, gqPackets>>
    /\ UNCHANGED notQuick

(* one pass of the outer loop with ser.in_waiting > 0: everything waiting  *)
(* is read, packets are extracted, the overflow check is made              *)
GqPassRead ==
    /\ gqPort # <<>>
    /\ \E acc \in {ExtractPackets([buffer |-> gqBuffer \o gqPort,
                                   packets |-> <<>>])} :
          /\ gqBuffer' = AfterOverflowCheck(acc.buffer)
          /\ gqPackets' = gqPackets \o acc.packets
    /\ gqPort' = <<>>
    /\ UNCHANGED gqSent
    /\ UNCHANGED notQuick

(* one pass of the outer loop with nothing waiting, more than              *)
(* CLEANUP_TIMEOUT seconds after the last read: the buffer is emptied      *)
GqPassTimeout ==
    /\ gqPort = <<>>
    /\ gqBuffer # <<>>
    /\ gqBuffer' = <<>>
    /\ UNCHANGED <<gqSent, gqPort, gqPackets>>
    /\ UNCHANGED notQuick

NextQuick ==
    \/ \E name \in GqItemNames : GqSend(name)
    \/ GqPassRead
    \/ GqPassTimeout

SpecQuick == Init /\ [][NextQuick]_vars

(* the buffer holds a header byte and, later, a footer byte *)
HoldsPacket(buf) ==
    \E i \in DOMAIN buf : \E j \in DOMAIN buf :
        i < j /\ buf[i] = HEADER[1] /\ buf[j] = FOOTER[1]

(* C26: in the extraction loop of Glove_Quick, whenever the buffer holds a *)
(* header byte 0xAA followed later by a footer byte 0x55, a packet is      *)
(* extracted in that pass, also when a stray 0x55 precedes the header: no  *)
(* pass leaves such a packet in the buffer, to be held back until the      *)
(* overflow or timeout cleanup discards it.                                *)
C26_PacketNotHeldBack == ~HoldsPacket(gqBuffer)

-----------------------------------------------------------------------------
(* Part 10: HandControlThread of src/本体感知系统显示程序（手语采集）/main.py *)
(* and the main thread of __main__, which starts it, sets targets in its   *)
(* loop and calls stop() in its finally block.                             *)

MaxHandWrites == 2
MaxTarget == 1

(* __main__: hand_control_thread.start() *)
HandStart ==
    /\ pcHandMain = "init"
    /\ pcHand = "unstarted"
    /\ pcHand' = "run"
    /\ pcHandMain' = "loop"
    /\ UNCHANGED <<hcRunning, hcLock, hcTarget, hcWrites>>
    /\ UNCHANGED notHand

(* run: self.running = True *)
RunFirst ==
    /\ pcHand = "run"
    /\ hcRunning' = TRUE
    /\ pcHand' = "test"
    /\ UNCHANGED <<hcLock, hcTarget, hcWrites, pcHandMain>>
    /\ UNCHANGED notHand

(* run: while self.running *)
RunTest ==
    /\ pcHand = "test"
    /\ pcHand' = IF hcRunning THEN "with" ELSE "exited"
    /\ UNCHANGED <<hcRunning, hcLock, hcTarget, hcWrites, pcHandMain>>
    /\ UNCHANGED notHand

(* run: with self.lock *)
RunAcquire ==
    /\ pcHand = "with"
    /\ hcLock = None
    /\ hcLock' = "hand"
    /\ pcHand' = "smooth"
    /\ UNCHANGED <<hcRunning, hcTarget, hcWrites, pcHandMain>>
    /\ UNCHANGED notHand

(* run: current_positions move towards target_positions, lock released *)
RunSmooth ==
    /\ pcHand = "smooth"
    /\ hcLock' = None
    /\ pcHand' = "control"
    /\ UNCHANGED <<hcRunning, hcTarget, hcWrites, pcHandMain>>
    /\ UNCHANGED notHand

(* run: hand_controller.set_positions(...), then the sleep *)
RunControl ==
    /\ pcHand = "control"
    /\ hcWrites' = Min(hcWrites + 1, MaxHandWrites)
    /\ pcHand' = "test"
    /\ UNCHANGED <<hcRunning, hcLock, hcTarget, pcHandMain>>
    /\ UNCHANGED notHand

(* the loop of __main__: hand_control_thread.set_target_positions, entered *)
SetTargetAcquire ==
    /\ pcHandMain = "loop"
    /\ hcLock = None
    /\ hcLock' = "main"
    /\ pcHandMain' = "set"
    /\ UNCHANGED <<hcRunning, hcTarget, hcWrites, pcHand>>
    /\ UNCHANGED notHand

(* set_target_positions: self.target_positions = positions[:] *)
SetTarget(p) ==
    /\ pcHandMain = "set"
    /\ hcTarget' = p
    /\ hcLock' = None
    /\ pcHandMain' = "loop"
    /\ UNCHANGED <<hcRunning, hcWrites, pcHand>>
    /\ UNCHANGED notHand

(* stop, called in the finally block of __main__: self.running = False *)
StopBegin ==
    /\ pcHandMain = "loop"
    /\ hcRunning' = FALSE
    /\ pcHandMain' = "join"
    /\ UNCHANGED <<hcLock, hcTarget, hcWrites, pcHand>>
    /\ UNCHANGED notHand

(* stop: self.join() returns once run() has ended *)
StopJoin ==
    /\ pcHandMain = "join"
    /\ pcHand = "exited"
    /\ pcHandMain' = "stopped"
    /\ UNCHANGED <<hcRunning, hcLock, hcTarget, hcWrites, pcHand>>
    /\ UNCHANGED notHand

HandThread ==
    RunFirst \/ RunTest \/ RunAcquire \/ RunSmooth \/ RunControl

NextHand ==
    \/ HandStart
    \/ HandThread
    \/ SetTargetAcquire
    \/ \E p \in 0..MaxTarget : SetTarget(p)
    \/ StopBegin
    \/ StopJoin

(* both threads are scheduled *)
SpecHand ==
    /\ Init
    /\ [][NextHand]_vars
    /\ WF_vars(HandThread)
    /\ WF_vars(StopJoin)

(* C27: HandControlThread.stop() always returns and leaves the thread      *)
(* terminated, for every interleaving of start(), the thread's run() and   *)
(* stop(), also when stop() is called before run() has executed its first  *)
(* statement.                                                              *)
C27_StopReturns ==
    /\ [](pcHandMain = "stopped" => pcHand = "exited")
    /\ (pcHandMain = "join" ~> pcHandMain = "stopped")

-----------------------------------------------------------------------------
(* Part 11: VisualizerThread of the same program: update_data, called by   *)
(* the main thread for each frame, and the get() of the thread's run().    *)
(* The item of the k-th update_data call is the number k.                  *)

maxsize == 10

MaxVizCalls == 12

(* queue.Queue.full() *)
NeverFull(q) == FALSE

QueueFull(q) == Len(q) >= maxsize

(* run: the visualizer is created, self.running = True *)
VizRunFirst ==
    /\ ~vqRunning
    /\ vqRunning' = TRUE
    /\ UNCHANGED <<vqQueue, vqCalls, pcUpd, vqDropped, vqFailed>>
    /\ UNCHANGED notViz

(* run: glove_data = self.data_queue.get(timeout=0.01); with the queue     *)
(* empty queue.Empty is raised after the timeout and the loop continues    *)
VizGet ==
    /\ vqRunning
    /\ vqQueue' = IF vqQueue = <<>> THEN <<>> ELSE Tail(vqQueue)
    /\ UNCHANGED <<vqRunning, vqCalls, pcUpd, vqDropped, vqFailed>>
    /\ UNCHANGED notViz

(* update_data is called: if not self.running: return *)
UpdCall ==
    /\ pcUpd = "idle"
    /\ vqCalls < MaxVizCalls
    /\ vqCalls' = vqCalls + 1
    /\ pcUpd' = IF vqRunning THEN "full" ELSE "idle"
    /\ UNCHANGED <<vqRunning, vqQueue, vqDropped, vqFailed>>
    /\ UNCHANGED notViz

(* update_data: if self.data_queue.full() *)
UpdFull ==
    /\ pcUpd = "full"
    /\ pcUpd' = IF QueueFull(vqQueue) THEN "discard" ELSE "put"
    /\ UNCHANGED <<vqRunning, vqQueue, vqCalls, vqDropped, vqFailed>>
    /\ UNCHANGED notViz

(* update_data: self.data_queue.get_nowait(), queue.Empty being passed *)
UpdDiscard ==
    /\ pcUpd = "discard"
    /\ IF vqQueue = <<>>
       THEN UNCHANGED <<vqQueue, vqDropped>>
       ELSE /\ vqQueue' = Tail(vqQueue)
            /\ vqDropped' = vqDropped + 1
    /\ pcUpd' = "put"
    /\ UNCHANGED <<vqRunning, vqCalls, vqFailed>>
    /\ UNCHANGED notViz

(* update_data: self.data_queue.put_nowait(...); queue.Full, raised on a   *)
(* full queue, is caught by `except Exception` and the item is lost        *)
UpdPut ==
    /\ pcUpd = "put"
    /\ IF Len(vqQueue) >= maxsize
       THEN /\ vqFailed' = TRUE
            /\ UNCHANGED vqQueue
       ELSE /\ vqQueue' = Append(vqQueue, vqCalls)
            /\ UNCHANGED vqFailed
    /\ pcUpd' = "idle"
    /\ UNCHANGED <<vqRunning, vqCalls, vqDropped>>
    /\ UNCHANGED notViz

(* the steps of update_data after the call *)
UpdSteps == UpdFull \/ UpdDiscard \/ UpdPut

NextViz == VizRunFirst \/ VizGet \/ UpdCall \/ UpdSteps

SpecViz == Init /\ [][NextViz]_vars

(* C28: update_data never blocks and never fails on a full queue: under    *)
(* every interleaving with the consumer's get(), the queue holds at most   *)
(* 10 items, and when it is full the oldest item is discarded and the new  *)
(* item is enqueued, the remaining items staying in arrival order.         *)
C28_DropOldest ==
    /\ [](Len(vqQueue) <= maxsize)
    /\ [](~vqFailed)
    /\ [](pcUpd # "idle" => ENABLED UpdSteps)
    /\ [](\A i \in 1..(Len(vqQueue) - 1) : vqQueue[i] < vqQueue[i + 1])
    /\ [][(pcUpd = "discard" /\ pcUpd' = "put" /\ vqQueue # <<>>)
              => vqQueue' = Tail(vqQueue)]_vars
    /\ [][(pcUpd = "put" /\ pcUpd' = "idle")
              => vqQueue' = Append(vqQueue, vqCalls)]_vars

(* C28 witness: update_data found the queue full, the consumer then took   *)
(* an item, update_data discarded the next one and enqueued the new item   *)
C28_Witness ==
    /\ pcUpd = "idle"
    /\ vqDropped = 1
    /\ Len(vqQueue) = maxsize - 1
    /\ vqQueue[Len(vqQueue)] = vqCalls
    /\ vqQueue[1] = vqCalls - maxsize + 2

-----------------------------------------------------------------------------
(* Part 12: GestureCollectionWindow of                                     *)
(* src/手势识别数据采集/Gesture_Collection_App.py.  The window is driven by *)
(* Qt events, each handled to its end on the GUI thread: a click on the    *)
(* lock button, key presses, clicks on the gesture cells, the 20 ms        *)
(* collection_timer and the data_received signal of the DataWorker thread. *)
(* The methods are operators from the fields of the window to the fields   *)
(* after the call.  A frame is represented by its timestamp; time is       *)
(* counted in units of half a second.                                      *)

TOTAL_REPS_PER_GESTURE == 1

CALIBRATION_INTERVAL == 5

(* CAPTURE_DURATION = 2.0 s and PRE_CAPTURE_DURATION = 0.5 s, in half      *)
(* seconds *)
CAPTURE_DURATION == 4

PRE_CAPTURE_DURATION == 1

(* deque(maxlen=200) *)
DataBufferMaxlen == 200

(* perform_calibration averages the last 10 frames when it has them *)
CalibrationFrames == 10

MaxGcClock == 8

MaxGcFrames == 1

MaxGcCaptures == 2

(* the texts the user may type into input_name *)
NameTexts == {"", " ", "id"}

(* str.strip() on those texts *)
Strip(t) == IF t = " " THEN "" ELSE t

Keys == {"C", "Space", "Right", "Left", "Escape", "Other"}

(* enter_calibration_state without its assignments *)
EnterCalibrationKeeps(w) == w

enter_calibration_state(w) ==
    IF ~w.info_locked
    THEN w
    ELSE [w EXCEPT !.needs_calibration = TRUE,
                   !.samples_since_calibration = 0]

enter_capture_state(w) == [w EXCEPT !.needs_calibration = FALSE]

check_lock_status(w) ==
    IF w.info_locked THEN enter_calibration_state(w) ELSE w

(* the click has toggled the checkable button before the slot runs, and    *)
(* every call leaves info_locked equal to the button's checked state, so   *)
(* btn_lock.isChecked() is the negation of info_locked before the click    *)
toggle_lock_info(w) ==
    LET isChecked == ~w.info_locked
        w1 == [w EXCEPT !.info_locked = isChecked]
    IN  IF w1.info_locked
        THEN IF Strip(w1.name) = ""
             THEN [w1 EXCEPT !.info_locked = FALSE]
             ELSE check_lock_status(w1)
        ELSE w1

change_gesture(w, offset) ==
    LET new_idx == (w.current_gesture_idx + offset) % NumGestures
    IN  enter_calibration_state(
            [w EXCEPT !.current_gesture_idx = new_idx,
                      !.current_rep_count = w.gesture_progress[new_idx],
                      !.samples_since_calibration = 0,
                      !.current_R0 = None])

jump_to_gesture(w, idx) ==
    IF ~w.info_locked THEN w
    ELSE IF w.is_collecting THEN w
    ELSE enter_calibration_state(
            [w EXCEPT !.current_gesture_idx = idx,
                      !.current_rep_count = w.gesture_progress[idx],
                      !.samples_since_calibration = 0])

(* receiver.latest_reversed_data is a list of TOTAL_CELLS values from      *)
(* construction on, so the first guard never returns; current_R0 becomes   *)
(* a list computed from the last frames or from the latest one             *)
perform_calibration(w) ==
    enter_capture_state(
        [w EXCEPT !.current_R0 =
            IF Len(w.data_buffer) >= CalibrationFrames
            THEN "average" ELSE "latest"])

start_capture_gesture(w, time) ==
    IF w.is_collecting THEN w
    ELSE [w EXCEPT !.is_collecting = TRUE,
                   !.start_capture_time = time,
                   !.temp_capture_data =
                       SelectSeq(w.data_buffer,
                                 LAMBDA t : t >= time - PRE_CAPTURE_DURATION),
                   !.timer = TRUE]

(* the number of files written by one call: none when there are no         *)
(* samples, when there is no baseline, or when writing raises (caught and  *)
(* printed)                                                                *)
save_data_to_csv(w, writable) ==
    IF w.temp_capture_data = <<>> \/ w.current_R0 = None THEN 0
    ELSE IF ~writable THEN 0
    ELSE 1

(* the fields after stop_capture (the file it writes is save_data_to_csv)  *)
stop_capture(w) ==
    LET idx == w.current_gesture_idx
        reps == w.gesture_progress[idx] + 1
        w1 == [w EXCEPT !.is_collecting = FALSE,
                        !.timer = FALSE,
                        !.gesture_progress[idx] = reps,
                        !.current_rep_count = reps,
                        !.samples_since_calibration = @ + 1]
    IN  IF w1.current_rep_count >= TOTAL_REPS_PER_GESTURE
        THEN [w1 EXCEPT !.needs_calibration = TRUE]
        ELSE IF w1.samples_since_calibration >= CALIBRATION_INTERVAL
        THEN enter_calibration_state(w1)
        ELSE w1

(* a click on the lock button *)
ClickLock ==
    /\ ~gcClosed
    /\ win' = toggle_lock_info(win)
    /\ UNCHANGED <<gcClock, gcSaved, gcFrames, gcCaptures, gcClosed>>
    /\ UNCHANGED notGest

(* the user edits input_name, which is enabled while the info is unlocked *)
EditName(t) ==
    /\ ~gcClosed
    /\ ~win.info_locked
    /\ win' = [win EXCEPT !.name = t]
    /\ UNCHANGED <<gcClock, gcSaved, gcFrames, gcCaptures, gcClosed>>
    /\ UNCHANGED notGest

(* a key press; Escape closes the window (closeEvent stops the worker) *)
keyPressEvent(key) ==
    /\ ~gcClosed
    /\ LET starts == /\ win.info_locked /\ key = "Space"
                     /\ ~win.needs_calibration /\ ~win.is_collecting
       IN  /\ starts => gcCaptures < MaxGcCaptures
           /\ win' =
                IF ~win.info_locked THEN win
                ELSE CASE key = "C" -> perform_calibration(win)
                       [] key = "Space" ->
                            IF ~win.needs_calibration
                            THEN start_capture_gesture(win, gcClock)
                            ELSE win
                       [] key = "Right" ->
                            IF ~win.is_collecting
                            THEN change_gesture(win, 1) ELSE win
                       [] key = "Left" ->
                            IF ~win.is_collecting
                            THEN change_gesture(win, -1) ELSE win
                       [] OTHER -> win
           /\ gcCaptures' = IF starts THEN gcCaptures + 1 ELSE gcCaptures
    /\ gcClosed' = (win.info_locked /\ key = "Escape")
    /\ UNCHANGED <<gcClock, gcSaved, gcFrames>>
    /\ UNCHANGED notGest

(* a click on gesture cell idx *)
ClickCell(idx) ==
    /\ ~gcClosed
    /\ win' = jump_to_gesture(win, idx)
    /\ UNCHANGED <<gcClock, gcSaved, gcFrames, gcCaptures, gcClosed>>
    /\ UNCHANGED notGest

(* collection_timer fires; writable: the CSV file can be written *)
check_capture_status(writable) ==
    /\ ~gcClosed
    /\ win.timer
    /\ IF win.is_collecting
          /\ gcClock - win.start_capture_time >= CAPTURE_DURATION
       THEN /\ gcSaved' = gcSaved + save_data_to_csv(win, writable)
            /\ win' = stop_capture(win)
       ELSE UNCHANGED <<win, gcSaved>>
    /\ UNCHANGED <<gcClock, gcFrames, gcCaptures, gcClosed>>
    /\ UNCHANGED notGest

(* the data_received signal of the worker thread is delivered *)
on_data_received ==
    /\ ~gcClosed
    /\ gcFrames < MaxGcFrames
    /\ win' = [win EXCEPT
                 !.data_buffer =
                     DequeAppendMax(@, gcClock, DataBufferMaxlen),
                 !.temp_capture_data =
                     IF win.is_collecting THEN Append(@, gcClock) ELSE @]
    /\ gcFrames' = gcFrames + 1
    /\ UNCHANGED <<gcClock, gcSaved, gcCaptures, gcClosed>>
    /\ UNCHANGED notGest

(* half a second passes *)
GcTick ==
    /\ ~gcClosed
    /\ gcClock < MaxGcClock
    /\ gcClock' = gcClock + 1
    /\ UNCHANGED <<win, gcSaved, gcFrames, gcCaptures, gcClosed>>
    /\ UNCHANGED notGest

NextGesture ==
    \/ ClickLock
    \/ \E t \in NameTexts : EditName(t)
    \/ \E key \in Keys : keyPressEvent(key)
    \/ \E idx \in 0..(NumGestures - 1) : ClickCell(idx)
    \/ \E writable \in BOOLEAN : check_capture_status(writable)
    \/ on_data_received
    \/ GcTick

InitGestureSpec == Init /\ variant = "wifi"

SpecGesture == InitGestureSpec /\ [][NextGesture]_vars

(* C31: a capture starts (is_collecting becomes True) only when the user   *)
(* info is locked and needs_calibration is False, and in every reachable   *)
(* state needs_calibration = False implies that current_R0 is not None.    *)
C31_CaptureNeedsBaseline ==
    /\ [](~win.needs_calibration => win.current_R0 # None)
    /\ [][(~win.is_collecting /\ win'.is_collecting)
              => (win.info_locked /\ ~win.needs_calibration)]_vars

(* C31 witness: a capture is running for the second gesture, whose         *)
(* baseline was taken after the change of gesture had cleared the first    *)
C31_Witness ==
    /\ win.is_collecting
    /\ win.current_gesture_idx = 1
    /\ win.current_R0 # None
    /\ gcCaptures = 1

(* C32: gesture_progress is incremented only by a capture whose samples    *)
(* were written to a CSV file.                                             *)
C32_CountedOnlyIfSaved ==
    [][win'.gesture_progress # win.gesture_progress
          => gcSaved' = gcSaved + 1]_vars

(* C33: gesture_progress[i] never exceeds TOTAL_REPS_PER_GESTURE, so the   *)
(* completed total never exceeds NumGestures * TOTAL_REPS_PER_GESTURE.     *)
C33_ProgressBounded ==
    \A i \in 0..(NumGestures - 1) :
        win.gesture_progress[i] <= TOTAL_REPS_PER_GESTURE

-----------------------------------------------------------------------------
(* Part 13: the main loop of src/本体感知系统显示程序（手语采集）/main.py.   *)
(* The exoskeleton object belongs to the DataDisplay window; its           *)
(* pre_stretch_resistances is None until load_calibration_data has read a  *)
(* pre-stretch file, at construction or when the user records one through  *)
(* the window, whose events the loop dispatches with app.processEvents().  *)
(* receiver.receive is the receiver of Part 1 and the two threads are      *)
(* those of Parts 10 and 11; here a pass of the loop is one step.          *)

MaxAcqFrames == 9

(* StretchableExoskeleton.calculate_real_time_stretch: the second          *)
(* component of the pair returned, None or the list of 24 ratios           *)
calculate_real_time_stretch(pre_stretch_resistances) ==
    IF ~pre_stretch_resistances THEN None ELSE "ratios"

(* DataDisplay is constructed (found: a pre-stretch file is found and      *)
(* loaded) and the hand is connected or not; with the hand connected the   *)
(* control thread is started                                               *)
AcqStart(found, connected) ==
    /\ pcAcq = "start"
    /\ pcAcq' = "loop"
    /\ acqCalibrated' = found
    /\ acqHand' = connected
    /\ acqHandRunning' = connected
    /\ UNCHANGED <<acqFrames, acqForwarded, acqRaised, acqVizRunning,
                   acqConnOpen>>
    /\ UNCHANGED notAcq

(* one pass of `while True`.  recorded: processEvents runs the handler     *)
(* that records the pre-stretch values; got: receive returns a frame.      *)
(* len(None) raises TypeError, which no except clause of the try catches   *)
AcqPass(recorded, got) ==
    /\ pcAcq = "loop"
    /\ \E cal \in {acqCalibrated \/ recorded} :
          /\ acqCalibrated' = cal
          /\ IF ~got
             THEN UNCHANGED <<pcAcq, acqFrames, acqForwarded, acqRaised>>
             ELSE /\ acqFrames' = Min(acqFrames + 1, MaxAcqFrames)
                  /\ IF calculate_real_time_stretch(cal) = None
                     THEN /\ acqRaised' = "TypeError"
                          /\ pcAcq' = "finally"
                          /\ UNCHANGED acqForwarded
                     ELSE /\ acqForwarded' =
                                 Min(acqForwarded + 1, MaxAcqFrames)
                          /\ UNCHANGED <<pcAcq, acqRaised>>
    /\ UNCHANGED <<acqHand, acqHandRunning, acqVizRunning, acqConnOpen>>
    /\ UNCHANGED notAcq

(* Ctrl-C in the loop *)
AcqInterrupt ==
    /\ pcAcq = "loop"
    /\ pcAcq' = "finally"
    /\ acqRaised' = "KeyboardInterrupt"
    /\ UNCHANGED <<acqCalibrated, acqHand, acqFrames, acqForwarded,
                   acqHandRunning, acqVizRunning, acqConnOpen>>
    /\ UNCHANGED notAcq

(* the finally block, first statement: hand_control_thread.stop() when     *)
(* there is a control thread (its run loop is under way, so the join       *)
(* returns)                                                                *)
AcqStopHand ==
    /\ pcAcq = "finally"
    /\ pcAcq' = "stopViz"
    /\ acqHandRunning' = FALSE
    /\ UNCHANGED <<acqCalibrated, acqHand, acqFrames, acqForwarded,
                   acqRaised, acqVizRunning, acqConnOpen>>
    /\ UNCHANGED notAcq

(* visualizer_thread.stop(), hand_controller.disconnect() *)
AcqStopViz ==
    /\ pcAcq = "stopViz"
    /\ pcAcq' = "close"
    /\ acqVizRunning' = FALSE
    /\ UNCHANGED <<acqCalibrated, acqHand, acqFrames, acqForwarded,
                   acqRaised, acqHandRunning, acqConnOpen>>
    /\ UNCHANGED notAcq

(* visualizer_thread.stop() again, conn.close(), s.close() *)
AcqClose ==
    /\ pcAcq = "close"
    /\ pcAcq' = "ended"
    /\ acqVizRunning' = FALSE
    /\ acqConnOpen' = FALSE
    /\ UNCHANGED <<acqCalibrated, acqHand, acqFrames, acqForwarded,
                   acqRaised, acqHandRunning>>
    /\ UNCHANGED notAcq

NextAcq ==
    \/ \E found, connected \in BOOLEAN : AcqStart(found, connected)
    \/ \E recorded, got \in BOOLEAN : AcqPass(recorded, got)
    \/ AcqInterrupt
    \/ AcqStopHand
    \/ AcqStopViz
    \/ AcqClose

InitAcqSpec == Init /\ variant = "wifi"

SpecAcq == InitAcqSpec /\ [][NextAcq]_vars

(* C34: a frame received while the exoskeleton is not calibrated is        *)
(* skipped and the loop goes on receiving: the loop ends only on           *)
(* KeyboardInterrupt, after which both threads are stopped and the         *)
(* connection is closed.                                                   *)
C34_LoopEndsOnInterruptOnly ==
    /\ [][(pcAcq = "loop" /\ pcAcq' # "loop")
              => acqRaised' = "KeyboardInterrupt"]_vars
    /\ [](pcAcq = "ended"
              => ~acqHandRunning /\ ~acqVizRunning /\ ~acqConnOpen)

====
